---------------------------- MODULE Spec2Model ----------------------------
(***************************************************************************)
(* A model of the bring-back-BOLO engine (src/src/bolo_engine.py): the     *)
(* tile map, the five entity kinds and the per-frame pipeline of           *)
(* GameState.update with its collision pass.                               *)
(*                                                                         *)
(* Positions are pixels.  Every entity of the arena sits on one row and    *)
(* every heading is a multiple of 90 degrees, where math.cos and math.sin  *)
(* are exact (up to a float residue below the ulp of the coordinates), so  *)
(* integer arithmetic reproduces the float arithmetic of the source.  A    *)
(* distance test  sqrt(dx^2 + dy^2) < r  is evaluated as                   *)
(* dx^2 + dy^2 < r^2, which is the same test for r >= 0.                   *)
(*                                                                         *)
(* A frame is modelled at the grain of the source's loops: one step per    *)
(* iteration of each outer `for entity in self.entities` loop.  pc names   *)
(* the loop and idx the position in it; no other handler runs while a      *)
(* frame is in progress (the program is single-threaded).                  *)
(***************************************************************************)
EXTENDS Integers, Sequences, FiniteSets, TLC

(***************************************************************************)
(* Program constants (class Config and literals of the entity classes).    *)
(***************************************************************************)
WINDOW_WIDTH == 1024
WINDOW_HEIGHT == 768
TILE_SIZE == 16
MAP_WIDTH == 64
MAP_HEIGHT == 48
TANK_MAX_ARMOR == 8
TANK_MAX_SHELLS == 40
TANK_MAX_MINES == 40
TANK_BASE_SPEED == 2
TANK_SIZE == 12
TANK_FIRE_RATE == 10
CANNON_EXTRA == 8
SHELL_DAMAGE == 1
SHELL_SPEED == 6
SHELL_LIFETIME == 90
SHELL_RADIUS == 3
MINE_DAMAGE == 4
MINE_RADIUS == 6
PILLBOX_MAX_HEALTH == 16
PILLBOX_FIRE_RATE == 30
PILLBOX_MIN_FIRE_RATE == 5
PILLBOX_RANGE == 150
PILLBOX_SIZE == 8
PILLBOX_MAX_AGGRESSION == 8
BASE_RESUPPLY_RATE == 1200
BASE_SIZE == 16
BASE_INIT_HEALTH == 16
BASE_CAPTURE_HEALTH == 8
BASE_INIT_SHELLS == 20
BASE_INIT_MINES == 10
BASE_INIT_ARMOR == 8
BASE_MAX_SHELLS == 40
BASE_MAX_MINES == 20
BASE_MAX_ARMOR == 16
XFER_ARMOR == 1
XFER_SHELLS == 5
XFER_MINES == 2
AI_FIRE_DIST == 300
AI_FACING == 30

(***************************************************************************)
(* Bounds of the model.                                                    *)
(***************************************************************************)
\* the arena: MapW x MapH tiles (Config.MAP_WIDTH x MAP_HEIGHT scaled down)
MapW == 6
MapH == 3
\* unpaused frames explored
MaxFrames == 3
\* entities constructed after the arena's setup (shells and mines)
MaxSpawn == 2

\* class Team
NEUTRAL == 0
TEAM_1 == 1
TEAM_2 == 2

Min2(a, b) == IF a <= b THEN a ELSE b
Max2(a, b) == IF a >= b THEN a ELSE b
Min3(a, b, c) == Min2(a, Min2(b, c))

(***************************************************************************)
(* Terrain.                                                                *)
(***************************************************************************)
TileType == {"DEEP_WATER", "RIVER", "SWAMP", "CRATER", "ROAD", "FOREST",
             "RUBBLE", "GRASS", "WALL", "DAMAGED_WALL", "BOAT"}

\* speed_multiplier is held in hundredths
TerrainInfo(speed, passable, blocks, destructible) ==
    [speed_multiplier |-> speed, passable |-> passable,
     blocks_shots |-> blocks, destructible |-> destructible]

\* mutant of TERRAIN_DATA: deep water stops projectiles
TERRAIN_DATA_WaterBlocks ==
    [t \in TileType |->
       CASE t = "DEEP_WATER"   -> TerrainInfo(0, FALSE, TRUE, FALSE)
         [] t = "RIVER"        -> TerrainInfo(30, TRUE, FALSE, FALSE)
         [] t = "SWAMP"        -> TerrainInfo(25, TRUE, FALSE, TRUE)
         [] t = "CRATER"       -> TerrainInfo(50, TRUE, FALSE, FALSE)
         [] t = "ROAD"         -> TerrainInfo(120, TRUE, FALSE, FALSE)
         [] t = "FOREST"       -> TerrainInfo(40, TRUE, FALSE, TRUE)
         [] t = "RUBBLE"       -> TerrainInfo(60, TRUE, FALSE, FALSE)
         [] t = "GRASS"        -> TerrainInfo(80, TRUE, FALSE, FALSE)
         [] t = "WALL"         -> TerrainInfo(0, FALSE, TRUE, TRUE)
         [] t = "DAMAGED_WALL" -> TerrainInfo(0, FALSE, TRUE, TRUE)
         [] t = "BOAT"         -> TerrainInfo(80, TRUE, FALSE, TRUE)]

TERRAIN_DATA ==
    [t \in TileType |->
       CASE t = "DEEP_WATER"   -> TerrainInfo(0, FALSE, FALSE, FALSE)
         [] t = "RIVER"        -> TerrainInfo(30, TRUE, FALSE, FALSE)
         [] t = "SWAMP"        -> TerrainInfo(25, TRUE, FALSE, TRUE)
         [] t = "CRATER"       -> TerrainInfo(50, TRUE, FALSE, FALSE)
         [] t = "ROAD"         -> TerrainInfo(120, TRUE, FALSE, FALSE)
         [] t = "FOREST"       -> TerrainInfo(40, TRUE, FALSE, TRUE)
         [] t = "RUBBLE"       -> TerrainInfo(60, TRUE, FALSE, FALSE)
         [] t = "GRASS"        -> TerrainInfo(80, TRUE, FALSE, FALSE)
         [] t = "WALL"         -> TerrainInfo(0, FALSE, TRUE, TRUE)
         [] t = "DAMAGED_WALL" -> TerrainInfo(0, FALSE, TRUE, TRUE)
         [] t = "BOAT"         -> TerrainInfo(80, TRUE, FALSE, TRUE)]

\* TERRAIN of src/config.py: the same four properties per kind (its
\* regrowth and wood fields are read by nothing in the engine)
TERRAIN ==
    [t \in TileType |->
       CASE t = "DEEP_WATER"   -> TerrainInfo(0, FALSE, FALSE, FALSE)
         [] t = "RIVER"        -> TerrainInfo(30, TRUE, FALSE, FALSE)
         [] t = "SWAMP"        -> TerrainInfo(25, TRUE, FALSE, TRUE)
         [] t = "CRATER"       -> TerrainInfo(50, TRUE, FALSE, FALSE)
         [] t = "ROAD"         -> TerrainInfo(120, TRUE, FALSE, FALSE)
         [] t = "FOREST"       -> TerrainInfo(40, TRUE, FALSE, TRUE)
         [] t = "RUBBLE"       -> TerrainInfo(60, TRUE, FALSE, FALSE)
         [] t = "GRASS"        -> TerrainInfo(80, TRUE, FALSE, FALSE)
         [] t = "WALL"         -> TerrainInfo(0, FALSE, TRUE, TRUE)
         [] t = "DAMAGED_WALL" -> TerrainInfo(0, FALSE, TRUE, TRUE)
         [] t = "BOAT"         -> TerrainInfo(80, TRUE, FALSE, TRUE)]

\* GameMap.pixel_width / pixel_height
pixel_width == MapW * TILE_SIZE
pixel_height == MapH * TILE_SIZE

InGrid(tx, ty) == 0 <= tx /\ tx < MapW /\ 0 <= ty /\ ty < MapH

\* GameMap.get_tile: tiles[y][x], WALL outside the grid
get_tile(tl, tx, ty) == IF InGrid(tx, ty) THEN tl[ty][tx] ELSE "WALL"

\* mutant of set_tile: the bounds test is missing and the indices wrap
set_tile_Wraps(tl, tx, ty, kind) ==
    [tl EXCEPT ![ty % MapH][tx % MapW] = kind]

\* GameMap.set_tile: no-op outside the grid
set_tile(tl, tx, ty, kind) ==
    IF InGrid(tx, ty) THEN [tl EXCEPT ![ty][tx] = kind] ELSE tl

\* mutant of damage_tile: every kind the terrain table calls destructible
\* is damaged, a boat to rubble
damage_tile_Destructible(tl, tx, ty) ==
    LET tile == get_tile(tl, tx, ty) IN
    CASE tile = "WALL"         -> set_tile(tl, tx, ty, "DAMAGED_WALL")
      [] tile = "DAMAGED_WALL" -> set_tile(tl, tx, ty, "RUBBLE")
      [] tile = "FOREST"       -> set_tile(tl, tx, ty, "GRASS")
      [] tile = "SWAMP"        -> set_tile(tl, tx, ty, "CRATER")
      [] tile = "BOAT"         -> set_tile(tl, tx, ty, "RUBBLE")
      [] OTHER                 -> tl

\* GameMap.damage_tile
damage_tile(tl, tx, ty) ==
    LET tile == get_tile(tl, tx, ty) IN
    CASE tile = "WALL"         -> set_tile(tl, tx, ty, "DAMAGED_WALL")
      [] tile = "DAMAGED_WALL" -> set_tile(tl, tx, ty, "RUBBLE")
      [] tile = "FOREST"       -> set_tile(tl, tx, ty, "GRASS")
      [] tile = "SWAMP"        -> set_tile(tl, tx, ty, "CRATER")
      [] OTHER                 -> tl

\* Entity.tile_position: int(x // TILE_SIZE); \div floors, as // does
TileOf(p) == p \div TILE_SIZE


(***************************************************************************)
(* State.                                                                  *)
(***************************************************************************)
VARIABLES
    tiles,       \* GameMap.tiles: tiles[y][x]
    entities,    \* GameState.entities, the live collection, in list order
    pending,     \* GameState.pending_entities
    player_id,   \* id of the tank GameState.player refers to
    camera_x,    \* GameState.camera_x
    camera_y,    \* GameState.camera_y
    paused,      \* GameState.paused
    game_over,   \* GameState.game_over
    score,       \* GameState.score
    next_id,     \* Entity._next_id, the process-wide id counter
    pc,          \* the loop of the frame in progress, "idle" between handlers
    idx,         \* position of that loop in the live collection
    frame,       \* unpaused updates completed
    frame_tiles  \* history: the tiles as the frame in progress found them

vars == <<tiles, entities, pending, player_id, camera_x, camera_y, paused,
          game_over, score, next_id, pc, idx, frame, frame_tiles>>

(***************************************************************************)
(* Headings: multiples of 90 degrees (270 appears as -90 out of atan2).    *)
(***************************************************************************)
Cos(a) == CASE a = 0 -> 1 [] a = 90 -> 0 [] a = 180 -> -1
            [] a = 270 -> 0 [] a = -90 -> 0
Sin(a) == CASE a = 0 -> 0 [] a = 90 -> 1 [] a = 180 -> 0
            [] a = 270 -> -1 [] a = -90 -> -1

\* math.degrees(math.atan2(dy, dx)) for a direction along an axis
Atan2Deg(dy, dx) ==
    CASE dy = 0 /\ dx >= 0 -> 0
      [] dy = 0 /\ dx < 0  -> 180
      [] dx = 0 /\ dy > 0  -> 90
      [] dx = 0 /\ dy < 0  -> -90

\* (x1 - x2)**2 + (y1 - y2)**2
Dist2(a, b) == (a.x - b.x) * (a.x - b.x) + (a.y - b.y) * (a.y - b.y)

\* math.sqrt(...) < r, for r >= 0
Within(a, b, r) == Dist2(a, b) < r * r

(***************************************************************************)
(* Entity constructors (the __init__ methods); id comes from Entity.       *)
(***************************************************************************)
Tank(id, x, y, team) ==
    [kind |-> "Tank", id |-> id, x |-> x, y |-> y, alive |-> TRUE,
     team |-> team, angle |-> 0, armor |-> TANK_MAX_ARMOR,
     shells |-> TANK_MAX_SHELLS, mines |-> TANK_MAX_MINES,
     fire_cooldown |-> 0]

Shell(id, x, y, angle, team, owner_id) ==
    [kind |-> "Shell", id |-> id, x |-> x, y |-> y, alive |-> TRUE,
     angle |-> angle, team |-> team, owner_id |-> owner_id,
     lifetime |-> SHELL_LIFETIME]

Mine(id, x, y, team) ==
    [kind |-> "Mine", id |-> id, x |-> x, y |-> y, alive |-> TRUE,
     team |-> team]

Pillbox(id, x, y, team) ==
    [kind |-> "Pillbox", id |-> id, x |-> x, y |-> y, alive |-> TRUE,
     team |-> team, health |-> PILLBOX_MAX_HEALTH, fire_cooldown |-> 0,
     active |-> TRUE, aggression |-> 0]

Base(id, x, y, team) ==
    [kind |-> "Base", id |-> id, x |-> x, y |-> y, alive |-> TRUE,
     team |-> team, health |-> BASE_INIT_HEALTH, shells |-> BASE_INIT_SHELLS,
     mines |-> BASE_INIT_MINES, armor |-> BASE_INIT_ARMOR,
     regen_timer |-> BASE_RESUPPLY_RATE]

IsTank(e) == e.kind = "Tank"
IsShell(e) == e.kind = "Shell"
IsMine(e) == e.kind = "Mine"
IsPillbox(e) == e.kind = "Pillbox"
IsBase(e) == e.kind = "Base"

\* Entity.destroy
destroy(e) == [e EXCEPT !.alive = FALSE]

(***************************************************************************)
(* Tank.                                                                   *)
(***************************************************************************)
\* Tank.update (the LGM timer is never started anywhere in the source)
TankUpdate(t) ==
    IF t.fire_cooldown > 0
    THEN [t EXCEPT !.fire_cooldown = @ - 1]
    ELSE t

\* mutant of CanFire: the cooldown is not looked at
CanFire_IgnoresCooldown(t) == ~(t.shells <= 0)

\* mutant of CanFire: the shell stock is not looked at
CanFire_IgnoresStock(t) == ~(t.fire_cooldown > 0)

\* Tank.fire: whether a shell comes out
CanFire(t) == ~(t.fire_cooldown > 0 \/ t.shells <= 0)

\* Tank.fire: the tank afterwards
TankAfterFire(t) ==
    IF CanFire(t)
    THEN [t EXCEPT !.shells = @ - 1, !.fire_cooldown = TANK_FIRE_RATE]
    ELSE t

\* Tank.fire: the shell, spawned at the cannon tip
TankShell(t, id) ==
    Shell(id, t.x + Cos(t.angle) * (TANK_SIZE + CANNON_EXTRA),
              t.y + Sin(t.angle) * (TANK_SIZE + CANNON_EXTRA),
          t.angle, t.team, t.id)

\* mutant of CanPlaceMine: the mine stock is not looked at
CanPlaceMine_Always(t) == t.mines <= t.mines

\* Tank.place_mine
CanPlaceMine(t) == ~(t.mines <= 0)
TankAfterPlaceMine(t) ==
    IF CanPlaceMine(t) THEN [t EXCEPT !.mines = @ - 1] ELSE t
TankMine(t, id) == Mine(id, t.x, t.y, t.team)

\* mutant of TankTakeDamage: the tank is not destroyed at armor <= 0
TankTakeDamage_NoDestroy(t, amount) == [t EXCEPT !.armor = @ - amount]

\* Tank.take_damage
TankTakeDamage(t, amount) ==
    LET a == t.armor - amount IN
    IF a <= 0
    THEN [t EXCEPT !.armor = a, !.alive = FALSE]
    ELSE [t EXCEPT !.armor = a]

\* Tank.resupply
TankResupply(t) ==
    [t EXCEPT !.armor = Min2(TANK_MAX_ARMOR, @ + XFER_ARMOR),
              !.shells = Min2(TANK_MAX_SHELLS, @ + XFER_SHELLS),
              !.mines = Min2(TANK_MAX_MINES, @ + XFER_MINES)]

(***************************************************************************)
(* Tank movement.  A tank that moves leaves the pixel grid (a step on      *)
(* GRASS is 1.6 pixels), so these operators take the tank's position in    *)
(* hundredths of a pixel; speed_multiplier is in hundredths as well, which *)
(* makes speed * multiplier a whole number of hundredths.  is_moving,      *)
(* which the moves set and nothing reads, is left out.                     *)
(***************************************************************************)
SubPixel == 100

\* Tank.has_boat: set False by __init__ and assigned nowhere else
has_boat(t) == FALSE

\* Tank._get_terrain_speed
get_terrain_speed(t, tl) ==
    LET tile == get_tile(tl, TileOf(t.x \div SubPixel),
                         TileOf(t.y \div SubPixel))
    IN  IF tile = "DEEP_WATER" /\ ~has_boat(t) THEN 0
        ELSE TERRAIN_DATA[tile].speed_multiplier

\* mutant of can_move_to: the terrain of the candidate is not looked at
can_move_to_BoundsOnly(t, x, y, tl) ==
    /\ ~(x < TANK_SIZE * SubPixel
         \/ x > (pixel_width - TANK_SIZE) * SubPixel)
    /\ ~(y < TANK_SIZE * SubPixel
         \/ y > (pixel_height - TANK_SIZE) * SubPixel)

\* Tank._can_move_to
can_move_to(t, x, y, tl) ==
    IF x < TANK_SIZE * SubPixel \/ x > (pixel_width - TANK_SIZE) * SubPixel
    THEN FALSE
    ELSE IF \/ y < TANK_SIZE * SubPixel
            \/ y > (pixel_height - TANK_SIZE) * SubPixel
    THEN FALSE
    ELSE LET tile == get_tile(tl, TileOf(x \div SubPixel),
                              TileOf(y \div SubPixel))
         IN  IF ~TERRAIN_DATA[tile].passable
             THEN tile = "DEEP_WATER" /\ has_boat(t)
             ELSE TRUE

\* Tank.move_forward
move_forward(t, tl) ==
    LET terrain_speed == get_terrain_speed(t, tl)
        new_x == t.x + Cos(t.angle) * TANK_BASE_SPEED * terrain_speed
        new_y == t.y + Sin(t.angle) * TANK_BASE_SPEED * terrain_speed
    IN  IF terrain_speed <= 0 THEN t
        ELSE IF can_move_to(t, new_x, new_y, tl)
             THEN [t EXCEPT !.x = new_x, !.y = new_y]
             ELSE t

\* Tank.move_backward: the step is 0.6 of the forward one
move_backward(t, tl) ==
    LET terrain_speed == get_terrain_speed(t, tl)
        step == (TANK_BASE_SPEED * terrain_speed * 6) \div 10
        new_x == t.x - Cos(t.angle) * step
        new_y == t.y - Sin(t.angle) * step
    IN  IF terrain_speed <= 0 THEN t
        ELSE IF can_move_to(t, new_x, new_y, tl)
             THEN [t EXCEPT !.x = new_x, !.y = new_y]
             ELSE t

(***************************************************************************)
(* Shell.update: the shell afterwards and the tiles afterwards.            *)
(***************************************************************************)
ShellMoved(s) ==
    [s EXCEPT !.x = @ + Cos(s.angle) * SHELL_SPEED,
              !.y = @ + Sin(s.angle) * SHELL_SPEED,
              !.lifetime = @ - 1]

OutOfBounds(s) ==
    s.x < 0 \/ s.x > pixel_width \/ s.y < 0 \/ s.y > pixel_height

\* mutant of ShellUpdate: only the lifetime and the pixel bounds end a
\* shell, the terrain does not
ShellUpdate_NoTerrain(s, tl) ==
    LET m == ShellMoved(s)
    IN  IF m.lifetime <= 0 THEN destroy(m)
        ELSE IF OutOfBounds(m) THEN destroy(m)
        ELSE m

\* mutant of ShellUpdate: the lifetime is counted but never tested
ShellUpdate_NoExpiry(s, tl) ==
    LET m == ShellMoved(s)
        terrain == TERRAIN_DATA[get_tile(tl, TileOf(m.x), TileOf(m.y))]
    IN  IF terrain.blocks_shots THEN destroy(m)
        ELSE IF OutOfBounds(m) THEN destroy(m)
        ELSE m

ShellUpdate(s, tl) ==
    LET m == ShellMoved(s)
        terrain == TERRAIN_DATA[get_tile(tl, TileOf(m.x), TileOf(m.y))]
    IN  IF m.lifetime <= 0 THEN destroy(m)
        ELSE IF terrain.blocks_shots THEN destroy(m)
        ELSE IF OutOfBounds(m) THEN destroy(m)
        ELSE m

\* mutant of ShellUpdateTiles: a shell damages every destructible kind of
\* ground it comes over
ShellUpdateTiles_AnyDestructible(s, tl) ==
    LET m == ShellMoved(s)
        terrain == TERRAIN_DATA[get_tile(tl, TileOf(m.x), TileOf(m.y))]
    IN  IF m.lifetime > 0 /\ terrain.destructible
        THEN damage_tile(tl, TileOf(m.x), TileOf(m.y))
        ELSE tl

\* mutant of ShellUpdateTiles: the lifetime test is off by one
\* (lifetime < 0), so the last update still reaches the terrain test
ShellUpdateTiles_LastUpdateHits(s, tl) ==
    LET m == ShellMoved(s)
        terrain == TERRAIN_DATA[get_tile(tl, TileOf(m.x), TileOf(m.y))]
    IN  IF m.lifetime >= 0 /\ terrain.blocks_shots /\ terrain.destructible
        THEN damage_tile(tl, TileOf(m.x), TileOf(m.y))
        ELSE tl

\* mutant of ShellUpdateTiles: the terrain is damaged even when the
\* lifetime has run out
ShellUpdateTiles_IgnoresLifetime(s, tl) ==
    LET m == ShellMoved(s)
        terrain == TERRAIN_DATA[get_tile(tl, TileOf(m.x), TileOf(m.y))]
    IN  IF terrain.blocks_shots /\ terrain.destructible
        THEN damage_tile(tl, TileOf(m.x), TileOf(m.y))
        ELSE tl

ShellUpdateTiles(s, tl) ==
    LET m == ShellMoved(s)
        terrain == TERRAIN_DATA[get_tile(tl, TileOf(m.x), TileOf(m.y))]
    IN  IF m.lifetime > 0 /\ terrain.blocks_shots /\ terrain.destructible
        THEN damage_tile(tl, TileOf(m.x), TileOf(m.y))
        ELSE tl

(***************************************************************************)
(* Mine.                                                                   *)
(***************************************************************************)
\* mutant of MineUpdate: the mine goes off by itself
MineUpdate_SelfDestruct(m) == destroy(m)

\* Mine.update: pass
MineUpdate(m) == m

\* mutant of DetonateTiles: the cell is damaged one step, not cratered
DetonateTiles_Damage(m, tl) == damage_tile(tl, TileOf(m.x), TileOf(m.y))

\* Mine.detonate: the tiles afterwards (the mine itself is destroyed)
DetonateTiles(m, tl) == set_tile(tl, TileOf(m.x), TileOf(m.y), "CRATER")

(***************************************************************************)
(* Pillbox.                                                                *)
(***************************************************************************)
\* the test of Pillbox._find_target for one entity
IsTarget(p, e) ==
    IsTank(e) /\ e.team # p.team /\ Within(e, p, PILLBOX_RANGE)

\* Pillbox._find_target, the scan from position j on: best is the index of
\* best_target so far (0 for None); it is replaced only by a strictly nearer
\* tank, so the earliest of the nearest wins.
RECURSIVE ScanTarget(_, _, _, _)
ScanTarget(p, ents, j, best) ==
    IF j > Len(ents) THEN best
    ELSE IF /\ IsTarget(p, ents[j])
            /\ (best = 0 \/ Dist2(ents[j], p) < Dist2(ents[best], p))
         THEN ScanTarget(p, ents, j + 1, j)
         ELSE ScanTarget(p, ents, j + 1, best)

\* mutant of FindTarget: among the nearest the last found wins
FindTarget_LastNearest(p, ents) ==
    LET C == {j \in DOMAIN ents : IsTarget(p, ents[j])}
        N == {j \in C : \A k \in C : Dist2(ents[j], p) <= Dist2(ents[k], p)}
    IN  IF C = {} THEN 0 ELSE CHOOSE j \in N : \A k \in N : j >= k

\* Pillbox._find_target: index of the target in ents, 0 for None
FindTarget(p, ents) == ScanTarget(p, ents, 1, 0)

\* Pillbox.update, before the target scan: cooldown tick and aggression decay
\* (decay stands for random.random() < 0.01)
PillboxTick(p, decay) ==
    LET c == IF p.fire_cooldown > 0 THEN p.fire_cooldown - 1
             ELSE p.fire_cooldown
        a == IF p.aggression > 0 /\ decay THEN Max2(0, p.aggression - 1)
             ELSE p.aggression
    IN  [p EXCEPT !.fire_cooldown = c, !.aggression = a]

\* mutant of PillboxFires: the cooldown is not consulted
PillboxFires_IgnoresCooldown(p, decay, ents) ==
    p.active /\ FindTarget(p, ents) # 0

\* Pillbox.update: whether it fires this frame
PillboxFires(p, decay, ents) ==
    /\ p.active
    /\ PillboxTick(p, decay).fire_cooldown <= 0
    /\ FindTarget(p, ents) # 0

\* Pillbox._fire_at: the cooldown it sets
AdjustedRate(p) ==
    Max2(PILLBOX_MIN_FIRE_RATE, PILLBOX_FIRE_RATE - p.aggression * 3)

\* Pillbox.update: the pillbox afterwards
PillboxUpdate(p, decay, ents) ==
    IF ~p.active THEN p
    ELSE LET q == PillboxTick(p, decay) IN
         IF PillboxFires(p, decay, ents)
         THEN [q EXCEPT !.fire_cooldown = AdjustedRate(q)]
         ELSE q

\* Pillbox._fire_at: the shell, aimed at its target
PillboxShell(p, target, id) ==
    Shell(id, p.x, p.y, Atan2Deg(target.y - p.y, target.x - p.x),
          p.team, p.id)

\* mutant of PillboxTakeDamage: health is not floored and the pillbox is
\* not neutralised
PillboxTakeDamage_NoFloor(p, amount) ==
    [p EXCEPT !.health = @ - amount,
              !.aggression = Min2(PILLBOX_MAX_AGGRESSION, @ + 1)]

\* mutant of PillboxTakeDamage: the aggression is not capped
PillboxTakeDamage_NoCap(p, amount) ==
    LET h == p.health - amount
        a == p.aggression + 1
    IN  IF h <= 0
        THEN [p EXCEPT !.health = 0, !.aggression = a, !.team = NEUTRAL,
                       !.active = FALSE]
        ELSE [p EXCEPT !.health = h, !.aggression = a]

\* Pillbox.take_damage
PillboxTakeDamage(p, amount) ==
    LET h == p.health - amount
        a == Min2(PILLBOX_MAX_AGGRESSION, p.aggression + 1)
    IN  IF h <= 0
        THEN [p EXCEPT !.health = 0, !.aggression = a, !.team = NEUTRAL,
                       !.active = FALSE]
        ELSE [p EXCEPT !.health = h, !.aggression = a]

\* mutant of PillboxCapture: a fallen pillbox is not switched on again
PillboxCapture_StaysDown(p, new_team) ==
    [p EXCEPT !.team = new_team, !.health = PILLBOX_MAX_HEALTH \div 2,
              !.aggression = 0]

\* Pillbox.capture
PillboxCapture(p, new_team) ==
    [p EXCEPT !.team = new_team, !.health = PILLBOX_MAX_HEALTH \div 2,
              !.active = TRUE, !.aggression = 0]

(***************************************************************************)
(* Base.                                                                   *)
(***************************************************************************)
\* mutant of BaseUpdate: the stocks regenerate without a cap
BaseUpdate_NoCap(b) ==
    IF b.regen_timer - 1 <= 0
    THEN [b EXCEPT !.regen_timer = BASE_RESUPPLY_RATE,
                   !.shells = @ + 1, !.mines = @ + 1, !.armor = @ + 1]
    ELSE [b EXCEPT !.regen_timer = @ - 1]

\* Base.update
BaseUpdate(b) ==
    IF b.regen_timer - 1 <= 0
    THEN [b EXCEPT !.regen_timer = BASE_RESUPPLY_RATE,
                   !.shells = Min2(BASE_MAX_SHELLS, @ + 1),
                   !.mines = Min2(BASE_MAX_MINES, @ + 1),
                   !.armor = Min2(BASE_MAX_ARMOR, @ + 1)]
    ELSE [b EXCEPT !.regen_timer = @ - 1]

\* Base.resupply_tank: the amounts handed over, armor then shells then mines
GiveArmor(b, t) ==
    IF t.armor < TANK_MAX_ARMOR /\ b.armor > 0
    THEN Min3(XFER_ARMOR, b.armor, TANK_MAX_ARMOR - t.armor) ELSE 0
\* mutant of GiveShells: the room left in the tank is not looked at
GiveShells_NoRoom(b, t) ==
    IF t.shells < TANK_MAX_SHELLS /\ b.shells > 0
    THEN Min2(XFER_SHELLS, b.shells) ELSE 0
GiveShells(b, t) ==
    IF t.shells < TANK_MAX_SHELLS /\ b.shells > 0
    THEN Min3(XFER_SHELLS, b.shells, TANK_MAX_SHELLS - t.shells) ELSE 0
GiveMines(b, t) ==
    IF t.mines < TANK_MAX_MINES /\ b.mines > 0
    THEN Min3(XFER_MINES, b.mines, TANK_MAX_MINES - t.mines) ELSE 0

\* Base.resupply_tank: the tank afterwards
ResupplyTank_Tank(b, t) ==
    IF t.team # b.team THEN t
    ELSE [t EXCEPT !.armor = @ + GiveArmor(b, t),
                   !.shells = @ + GiveShells(b, t),
                   !.mines = @ + GiveMines(b, t)]

\* mutant of ResupplyTank_Base: the base hands out without giving up stock
ResupplyTank_Base_NoLoss(b, t) == b

\* Base.resupply_tank: the base afterwards
ResupplyTank_Base(b, t) ==
    IF t.team # b.team THEN b
    ELSE [b EXCEPT !.armor = @ - GiveArmor(b, t),
                   !.shells = @ - GiveShells(b, t),
                   !.mines = @ - GiveMines(b, t)]

\* Base.capture
BaseCapture(b, new_team) ==
    [b EXCEPT !.team = new_team, !.health = BASE_CAPTURE_HEALTH]


(***************************************************************************)
(* The collision pass, GameState._process_collisions: four loops over the  *)
(* live collection; each operator below is one iteration of an outer loop  *)
(* with its whole inner loop.                                              *)
(***************************************************************************)
\* the smallest index of ents that satisfies Q, 0 when there is none: the
\* entity at which an inner loop reaches its `break`
FirstIndex(ents, Q(_)) ==
    LET C == {j \in DOMAIN ents : Q(ents[j])} IN
    IF C = {} THEN 0 ELSE CHOOSE j \in C : \A k \in C : j <= k

\* mutant of ShellHitsTank: the test forgets the team
ShellHitsTank_NoTeamTest(s, o) ==
    /\ IsTank(o) /\ o.alive
    /\ o.id # s.owner_id
    /\ Within(s, o, TANK_SIZE + SHELL_RADIUS)

\* Shell vs Tank: the inner test for shell s and entity o
ShellHitsTank(s, o) ==
    /\ IsTank(o) /\ o.alive
    /\ o.id # s.owner_id
    /\ o.team # s.team
    /\ Within(s, o, TANK_SIZE + SHELL_RADIUS)

\* mutant of ShellTankAt: the shell is not destroyed by its hit
ShellTankAt_NoDestroy(ents, i) ==
    LET s == ents[i]
        Hit(o) == ShellHitsTank(s, o)
        j == IF IsShell(s) /\ s.alive THEN FirstIndex(ents, Hit) ELSE 0
    IN  IF j = 0 THEN ents
        ELSE [ents EXCEPT ![j] = TankTakeDamage(@, SHELL_DAMAGE)]

\* mutant of ShellTankAt: the nearest tank is hit, not the first found
ShellTankAt_Nearest(ents, i) ==
    LET s == ents[i]
        C == {j \in DOMAIN ents : ShellHitsTank(s, ents[j])}
        j == IF IsShell(s) /\ s.alive /\ C # {}
             THEN CHOOSE n \in C :
                    \A k \in C : Dist2(ents[n], s) <= Dist2(ents[k], s)
             ELSE 0
    IN  IF j = 0 THEN ents
        ELSE [ents EXCEPT ![j] = TankTakeDamage(@, SHELL_DAMAGE),
                          ![i] = destroy(@)]

\* Shell vs Tank, outer iteration i
ShellTankAt(ents, i) ==
    LET s == ents[i]
        Hit(o) == ShellHitsTank(s, o)
        j == IF IsShell(s) /\ s.alive THEN FirstIndex(ents, Hit) ELSE 0
    IN  IF j = 0 THEN ents
        ELSE [ents EXCEPT ![j] = TankTakeDamage(@, SHELL_DAMAGE),
                          ![i] = destroy(@)]

\* mutant of ShellHitsPillbox: the test forgets other.active
ShellHitsPillbox_IgnoresActive(s, o) ==
    /\ IsPillbox(o) /\ o.alive
    /\ o.team # s.team
    /\ Within(s, o, PILLBOX_SIZE + SHELL_RADIUS)

\* Shell vs Pillbox: the inner test
ShellHitsPillbox(s, o) ==
    /\ IsPillbox(o) /\ o.alive /\ o.active
    /\ o.team # s.team
    /\ Within(s, o, PILLBOX_SIZE + SHELL_RADIUS)

\* Shell vs Pillbox, outer iteration i
ShellPillboxAt(ents, i) ==
    LET s == ents[i]
        Hit(o) == ShellHitsPillbox(s, o)
        j == IF IsShell(s) /\ s.alive THEN FirstIndex(ents, Hit) ELSE 0
    IN  IF j = 0 THEN ents
        ELSE [ents EXCEPT ![j] = PillboxTakeDamage(@, SHELL_DAMAGE),
                          ![i] = destroy(@)]

\* mutant of MineHitsTank: the test forgets other.alive
MineHitsTank_AnyTank(m, o) ==
    /\ IsTank(o)
    /\ o.team # m.team
    /\ Within(m, o, TANK_SIZE + MINE_RADIUS)

\* Tank vs Mine: the inner test for mine m and entity o
MineHitsTank(m, o) ==
    /\ IsTank(o) /\ o.alive
    /\ o.team # m.team
    /\ Within(m, o, TANK_SIZE + MINE_RADIUS)

\* Tank vs Mine: the tank mine i detonates on, 0 for none
MineTarget(ents, i) ==
    LET m == ents[i]
        Hit(o) == MineHitsTank(m, o)
    IN  IF IsMine(m) /\ m.alive THEN FirstIndex(ents, Hit) ELSE 0

\* Tank vs Mine, outer iteration i: the entities afterwards
TankMineAt(ents, i) ==
    LET j == MineTarget(ents, i) IN
    IF j = 0 THEN ents
    ELSE [ents EXCEPT ![j] = TankTakeDamage(@, MINE_DAMAGE),
                      ![i] = destroy(@)]

\* Tank vs Mine, outer iteration i: the tiles afterwards (Mine.detonate)
TankMineTilesAt(ents, i, tl) ==
    IF MineTarget(ents, i) = 0 THEN tl ELSE DetonateTiles(ents[i], tl)

\* mutant of TankBaseContact: a base of another team is captured as well
TankBaseContact_CapturesOwned(ents, i, j) ==
    LET t == ents[i]
        b == ents[j]
    IN  IF IsBase(b) /\ Within(t, b, TANK_SIZE + BASE_SIZE)
        THEN IF b.team = t.team
             THEN [ents EXCEPT ![i] = ResupplyTank_Tank(b, t),
                               ![j] = ResupplyTank_Base(b, t)]
             ELSE [ents EXCEPT ![j] = BaseCapture(b, t.team)]
        ELSE ents

\* Tank vs Base: the body of the inner loop for tank i and entity j
TankBaseContact(ents, i, j) ==
    LET t == ents[i]
        b == ents[j]
    IN  IF IsBase(b) /\ Within(t, b, TANK_SIZE + BASE_SIZE)
        THEN IF b.team = t.team
             THEN [ents EXCEPT ![i] = ResupplyTank_Tank(b, t),
                               ![j] = ResupplyTank_Base(b, t)]
             ELSE IF b.team = NEUTRAL
                  THEN [ents EXCEPT ![j] = BaseCapture(b, t.team)]
                  ELSE ents
        ELSE ents

\* Tank vs Base: the inner loop from position j on (it has no break)
RECURSIVE TankBaseInner(_, _, _)
TankBaseInner(ents, i, j) ==
    IF j > Len(ents) THEN ents
    ELSE TankBaseInner(TankBaseContact(ents, i, j), i, j + 1)

\* Tank vs Base, outer iteration i
TankBaseAt(ents, i) ==
    IF IsTank(ents[i]) /\ ents[i].alive
    THEN TankBaseInner(ents, i, 1)
    ELSE ents

(***************************************************************************)
(* GameState: cleanup and camera.                                          *)
(***************************************************************************)
\* mutant of remove_dead_entities: nothing is removed
remove_dead_entities_KeepsAll(ents) == ents

\* GameState.remove_dead_entities
IsAlive(e) == e.alive
remove_dead_entities(ents) == SelectSeq(ents, IsAlive)

\* `self.player and self.player.alive`: the player is the tank of that id,
\* and it leaves the live collection only once it is not alive
PlayerIndex(ents) ==
    LET C == {j \in DOMAIN ents : ents[j].id = player_id} IN
    IF C = {} THEN 0 ELSE CHOOSE j \in C : TRUE
PlayerAlive(ents) == PlayerIndex(ents) # 0 /\ ents[PlayerIndex(ents)].alive

\* mutant of CameraAxis: the smoothed value is not clamped
CameraAxis_NoClamp(cam, centre, half, limit) ==
    cam + ((centre - half) - cam) \div 10

\* GameState._update_camera for one axis: smooth by 0.1 toward the target,
\* then clamp to [0, limit].  On a map narrower than the window limit < 0
\* and the clamp yields 0 whatever the smoothed value is; otherwise the
\* smoothed value is taken in whole units of cam (pixels in a frame of the
\* game, 1 / CamUnit pixel where the camera is followed on its own).
CameraAxis(cam, centre, half, limit) ==
    LET target == centre - half
        smooth == cam + (target - cam) \div 10
    IN  Max2(0, Min2(limit, smooth))

(***************************************************************************)
(* GameState: the pending buffer and the per-entity update dispatch.       *)
(***************************************************************************)
\* GameState.add_entity
add_entity(pend, e) == Append(pend, e)

\* mutant of MergePending: an enemy tank is respawned when none is left
MergePending_Respawns(ents, pend) ==
    IF \E j \in DOMAIN ents : IsTank(ents[j]) /\ ents[j].team = TEAM_2
    THEN ents \o pend
    ELSE ents \o pend \o << Tank(99, 44, 24, TEAM_2) >>

\* GameState.update: self.entities.extend(self.pending_entities)
MergePending(ents, pend) == ents \o pend

\* mutant of ClearPending: the buffer is not cleared after the merge
ClearPending_Keeps(pend) == pend

\* GameState.update: self.pending_entities.clear()
ClearPending(pend) == << >>

\* entity.update(self): the entity afterwards
EntityUpdate(e, decay, ents, tl) ==
    CASE IsTank(e)    -> TankUpdate(e)
      [] IsShell(e)   -> ShellUpdate(e, tl)
      [] IsMine(e)    -> MineUpdate(e)
      [] IsPillbox(e) -> PillboxUpdate(e, decay, ents)
      [] IsBase(e)    -> BaseUpdate(e)

\* entity.update(self): the tiles afterwards
EntityUpdateTiles(e, tl) ==
    IF IsShell(e) THEN ShellUpdateTiles(e, tl) ELSE tl

\* entity.update(self): the pending buffer afterwards
EntityUpdatePending(e, decay, ents, pend, id) ==
    IF IsPillbox(e) /\ PillboxFires(e, decay, ents)
    THEN add_entity(pend, PillboxShell(e, ents[FindTarget(e, ents)], id))
    ELSE pend

(***************************************************************************)
(* BoloGame._simple_enemy_ai.                                              *)
(***************************************************************************)
Abs(n) == IF n < 0 THEN -n ELSE n

\* angle_diff = (target_angle - enemy.angle + 180) % 360 - 180
AngleDiff(e, pl) ==
    ((Atan2Deg(pl.y - e.y, pl.x - e.x) - e.angle + 180) % 360) - 180

\* Tank.rotate_left / Tank.rotate_right
TANK_ROTATION_SPEED == 4
rotate_left(t) == [t EXCEPT !.angle = (@ - TANK_ROTATION_SPEED) % 360]
rotate_right(t) == [t EXCEPT !.angle = (@ + TANK_ROTATION_SPEED) % 360]

\* the enemy after the "rotate towards player" part
AIRotated(e, pl) ==
    IF Abs(AngleDiff(e, pl)) > 5
    THEN IF AngleDiff(e, pl) > 0 THEN rotate_right(e) ELSE rotate_left(e)
    ELSE e

\* whether the enemy pulls the trigger; r stands for random.random() < 0.03
AIShoots(e, pl, r) ==
    /\ Abs(AngleDiff(e, pl)) < AI_FACING
    /\ Dist2(e, pl) < AI_FIRE_DIST * AI_FIRE_DIST
    /\ r

\* whether the enemy would drive forward (dist > 150): the arena is narrower
\* than that, and the model stops where it is not
AI_APPROACH_DIST == 150
AIMoves(e, pl) ==
    /\ Abs(AngleDiff(e, pl)) < AI_FACING
    /\ Dist2(e, pl) > AI_APPROACH_DIST * AI_APPROACH_DIST

(***************************************************************************)
(* The arena: BoloGame._setup_game on a MapW x MapH map.                   *)
(***************************************************************************)
\* the row every entity sits on (the centre of tile row 1)
RowY == TILE_SIZE + TILE_SIZE \div 2

\* GameMap.generate_random: border walls, the drawn interior, then the two
\* road corridors through the middle row and column
GeneratedTile(x, y, interior) ==
    IF x = 0 \/ y = 0 \/ x = MapW - 1 \/ y = MapH - 1 THEN "WALL"
    ELSE interior[y][x]

Roads(x, y, kind) ==
    IF x = MapW \div 2 /\ 5 <= y /\ y < MapH - 5 THEN "ROAD"
    ELSE IF y = MapH \div 2 /\ 5 <= x /\ x < MapW - 5 THEN "ROAD"
    ELSE kind

generate_random(interior) ==
    [y \in 0 .. MapH - 1 |->
       [x \in 0 .. MapW - 1 |-> Roads(x, y, GeneratedTile(x, y, interior))]]

\* the interiors drawn: GRASS everywhere but for one cell of the row, which
\* is GRASS or WALL
WallTileX == 3
InteriorWith(kind) ==
    [y \in 0 .. MapH - 1 |->
       [x \in 0 .. MapW - 1 |->
          IF x = WallTileX /\ y = TileOf(RowY) THEN kind ELSE "GRASS"]]

\* armor the tanks may have been worn down to when the model starts
InitArmor == {1, 8}
\* where the second enemy stands
InitEnemyX == {60, 76}

PlayerX == 28
EnemyX == 44
FriendlyBaseX == 12
NeutralBaseX == 60
PillboxX == 46

\* the entities _setup_game appends, in its order: player, enemies, bases,
\* pillboxes; ids are issued from `first` on
SetupCount == 6
SetupEntities(first, a, ex) ==
    << [Tank(first, PlayerX, RowY, TEAM_1) EXCEPT !.armor = a],
       [Tank(first + 1, EnemyX, RowY, TEAM_2) EXCEPT !.angle = 180,
                                                      !.armor = a],
       [Tank(first + 2, ex, RowY, TEAM_2) EXCEPT !.angle = 180],
       Base(first + 3, FriendlyBaseX, RowY, TEAM_1),
       Base(first + 4, NeutralBaseX, RowY, NEUTRAL),
       Pillbox(first + 5, PillboxX, RowY, NEUTRAL) >>

\* GameState.__init__ followed by _setup_game, but for game_over
InitArena ==
    \E a \in InitArmor, ex \in InitEnemyX, kind \in {"GRASS", "WALL"} :
        /\ tiles = generate_random(InteriorWith(kind))
        /\ entities = SetupEntities(0, a, ex)
        /\ pending = << >>
        /\ player_id = 0
        /\ camera_x = 0
        /\ camera_y = 0
        /\ paused = FALSE
        /\ score = 0
        /\ next_id = SetupCount
        /\ pc = "idle"
        /\ idx = 1
        /\ frame = 0
        /\ frame_tiles = tiles

\* GameState.__init__: game_over starts False
Init == InitArena /\ game_over = FALSE

\* the same with game_over as an input: the flag as a caller of
\* GameState.update() may find it
InitFlags == InitArena /\ game_over \in BOOLEAN

\* shells and mines the inputs (keys, enemy triggers) may still construct
CanSpawn == next_id < player_id + SetupCount + MaxSpawn

(***************************************************************************)
(* Handlers between frames.                                                *)
(***************************************************************************)
\* BoloGame._handle_keydown, K_ESCAPE
KeyEscape ==
    /\ pc = "idle"
    /\ paused' = ~paused
    /\ UNCHANGED <<tiles, entities, pending, player_id, camera_x, camera_y,
                   game_over, score, next_id, pc, idx, frame,
                   frame_tiles>>

\* BoloGame._handle_keydown, K_SPACE
KeySpace ==
    /\ pc = "idle"
    /\ PlayerAlive(entities)
    /\ LET i == PlayerIndex(entities)
           t == entities[i]
       IN  IF CanFire(t)
           THEN /\ CanSpawn
                /\ entities' = [entities EXCEPT ![i] = TankAfterFire(t)]
                /\ pending' = add_entity(pending, TankShell(t, next_id))
                /\ next_id' = next_id + 1
           ELSE UNCHANGED <<entities, pending, next_id>>
    /\ UNCHANGED <<tiles, player_id, camera_x, camera_y, paused, game_over,
                   score, pc, idx, frame, frame_tiles>>

\* BoloGame._handle_keydown, K_m
KeyM ==
    /\ pc = "idle"
    /\ PlayerAlive(entities)
    /\ LET i == PlayerIndex(entities)
           t == entities[i]
       IN  IF CanPlaceMine(t)
           THEN /\ CanSpawn
                /\ entities' = [entities EXCEPT ![i] = TankAfterPlaceMine(t)]
                /\ pending' = add_entity(pending, TankMine(t, next_id))
                /\ next_id' = next_id + 1
           ELSE UNCHANGED <<entities, pending, next_id>>
    /\ UNCHANGED <<tiles, player_id, camera_x, camera_y, paused, game_over,
                   score, pc, idx, frame, frame_tiles>>

(***************************************************************************)
(* A frame.                                                                *)
(***************************************************************************)
\* the loop that follows loop p when p has run through the collection
NextLoop(p) ==
    CASE p = "ai"            -> "enter"
      [] p = "update"        -> "shell_tank"
      [] p = "shell_tank"    -> "shell_pillbox"
      [] p = "shell_pillbox" -> "tank_mine"
      [] p = "tank_mine"     -> "tank_base"
      [] p = "tank_base"     -> "cleanup"

\* move on to the next entity of the loop, or to the next loop
Advance ==
    IF idx < Len(entities)
    THEN pc' = pc /\ idx' = idx + 1
    ELSE pc' = NextLoop(pc) /\ idx' = 1

\* BoloGame._update up to its enemy loop (no movement key is held)
ControllerUpdate ==
    /\ pc = "idle"
    /\ IF paused
       THEN UNCHANGED <<pc, idx>>
       ELSE /\ frame < MaxFrames
            /\ pc' = IF entities = << >> THEN "enter" ELSE "ai"
            /\ idx' = 1
    /\ UNCHANGED <<tiles, entities, pending, player_id, camera_x, camera_y,
                   paused, game_over, score, next_id, frame, frame_tiles>>

\* BoloGame._update, one iteration of the enemy loop
EnemyAI ==
    /\ pc = "ai"
    /\ LET e == entities[idx]
           pl == entities[PlayerIndex(entities)]
       IN  IF IsTank(e) /\ e.team = TEAM_2 /\ PlayerAlive(entities)
           THEN /\ ~AIMoves(e, pl)
                /\ \E r \in BOOLEAN :
                     LET t == AIRotated(e, pl) IN
                     IF AIShoots(e, pl, r) /\ CanFire(t)
                     THEN /\ CanSpawn
                          /\ entities' =
                               [entities EXCEPT ![idx] = TankAfterFire(t)]
                          /\ pending' =
                               add_entity(pending, TankShell(t, next_id))
                          /\ next_id' = next_id + 1
                     ELSE /\ entities' = [entities EXCEPT ![idx] = t]
                          /\ UNCHANGED <<pending, next_id>>
           ELSE UNCHANGED <<entities, pending, next_id>>
    /\ Advance
    /\ UNCHANGED <<tiles, player_id, camera_x, camera_y, paused, game_over,
                   score, frame, frame_tiles>>

\* mutant of Update: the pause test forgets game_over
Update_IgnoresGameOver ==
    /\ pc = "enter"
    /\ IF paused
       THEN /\ pc' = "idle"
            /\ UNCHANGED <<entities, pending, idx, frame_tiles>>
       ELSE /\ entities' = MergePending(entities, pending)
            /\ pending' = ClearPending(pending)
            /\ pc' = IF entities' = << >> THEN "cleanup" ELSE "update"
            /\ idx' = 1
            /\ frame_tiles' = tiles
    /\ UNCHANGED <<tiles, player_id, camera_x, camera_y, paused, game_over,
                   score, next_id, frame>>

\* a call of GameState.update() from outside the controller (the engine's
\* step())
CallUpdate ==
    /\ pc = "idle"
    /\ paused \/ game_over \/ frame < MaxFrames
    /\ pc' = "enter"
    /\ UNCHANGED <<tiles, entities, pending, player_id, camera_x, camera_y,
                   paused, game_over, score, next_id, idx, frame, frame_tiles>>

\* GameState.update up to its first loop: the pause test and the merge
Update ==
    /\ pc = "enter"
    /\ IF paused \/ game_over
       THEN /\ pc' = "idle"
            /\ UNCHANGED <<entities, pending, idx, frame_tiles>>
       ELSE /\ entities' = MergePending(entities, pending)
            /\ pending' = ClearPending(pending)
            /\ pc' = IF entities' = << >> THEN "cleanup" ELSE "update"
            /\ idx' = 1
            /\ frame_tiles' = tiles
    /\ UNCHANGED <<tiles, player_id, camera_x, camera_y, paused, game_over,
                   score, next_id, frame>>

\* mutant of UpdateEntity: the update loop runs over an unordered
\* collection, each iteration taking any entity
UpdateEntity_AnyOrder ==
    /\ pc = "update"
    /\ \E j \in DOMAIN entities :
       LET e == entities[j] IN
       \E decay \in IF IsPillbox(e) /\ e.active /\ e.aggression > 0
                    THEN BOOLEAN ELSE {FALSE} :
          /\ entities' =
               [entities EXCEPT ![j] = EntityUpdate(e, decay, entities, tiles)]
          /\ tiles' = EntityUpdateTiles(e, tiles)
          /\ pending' = EntityUpdatePending(e, decay, entities, pending, next_id)
          /\ next_id' = next_id + (Len(pending') - Len(pending))
    /\ Advance
    /\ UNCHANGED <<player_id, camera_x, camera_y, paused, game_over, score,
                   frame, frame_tiles>>

\* GameState.update, one iteration of `for entity in self.entities:
\* entity.update(self)`
UpdateEntity ==
    /\ pc = "update"
    /\ LET e == entities[idx] IN
       \E decay \in IF IsPillbox(e) /\ e.active /\ e.aggression > 0
                    THEN BOOLEAN ELSE {FALSE} :
          /\ entities' =
               [entities EXCEPT ![idx] = EntityUpdate(e, decay, entities, tiles)]
          /\ tiles' = EntityUpdateTiles(e, tiles)
          /\ pending' = EntityUpdatePending(e, decay, entities, pending, next_id)
          /\ next_id' = next_id + (Len(pending') - Len(pending))
    /\ Advance
    /\ UNCHANGED <<player_id, camera_x, camera_y, paused, game_over, score,
                   frame, frame_tiles>>

\* _process_collisions, one iteration of the Shell vs Tank loop
ShellTank ==
    /\ pc = "shell_tank"
    /\ entities' = ShellTankAt(entities, idx)
    /\ Advance
    /\ UNCHANGED <<tiles, pending, player_id, camera_x, camera_y, paused,
                   game_over, score, next_id, frame, frame_tiles>>

\* _process_collisions, one iteration of the Shell vs Pillbox loop
ShellPillbox ==
    /\ pc = "shell_pillbox"
    /\ entities' = ShellPillboxAt(entities, idx)
    /\ Advance
    /\ UNCHANGED <<tiles, pending, player_id, camera_x, camera_y, paused,
                   game_over, score, next_id, frame, frame_tiles>>

\* _process_collisions, one iteration of the Tank vs Mine loop
TankMineStep ==
    /\ pc = "tank_mine"
    /\ entities' = TankMineAt(entities, idx)
    /\ tiles' = TankMineTilesAt(entities, idx, tiles)
    /\ Advance
    /\ UNCHANGED <<pending, player_id, camera_x, camera_y, paused, game_over,
                   score, next_id, frame, frame_tiles>>

\* _process_collisions, one iteration of the Tank vs Base loop
TankBase ==
    /\ pc = "tank_base"
    /\ entities' = TankBaseAt(entities, idx)
    /\ Advance
    /\ UNCHANGED <<tiles, pending, player_id, camera_x, camera_y, paused,
                   game_over, score, next_id, frame, frame_tiles>>

\* mutant of Cleanup: the game is over when the player's tank is gone
Cleanup_EndsGame ==
    /\ pc = "cleanup"
    /\ entities' = remove_dead_entities(entities)
    /\ IF PlayerAlive(entities)
       THEN LET pl == entities[PlayerIndex(entities)] IN
            /\ camera_x' = CameraAxis(camera_x, pl.x, WINDOW_WIDTH \div 2,
                                      pixel_width - WINDOW_WIDTH)
            /\ camera_y' = CameraAxis(camera_y, pl.y, WINDOW_HEIGHT \div 2,
                                      pixel_height - WINDOW_HEIGHT)
            /\ game_over' = game_over
       ELSE /\ UNCHANGED <<camera_x, camera_y>>
            /\ game_over' = TRUE
    /\ pc' = "idle"
    /\ idx' = 1
    /\ frame' = frame + 1
    /\ frame_tiles' = tiles
    /\ UNCHANGED <<tiles, pending, player_id, paused, score, next_id>>

\* GameState.update after the collision pass: remove_dead_entities, then the
\* camera when the player is alive
Cleanup ==
    /\ pc = "cleanup"
    /\ entities' = remove_dead_entities(entities)
    /\ IF PlayerAlive(entities)
       THEN LET pl == entities[PlayerIndex(entities)] IN
            /\ camera_x' = CameraAxis(camera_x, pl.x, WINDOW_WIDTH \div 2,
                                      pixel_width - WINDOW_WIDTH)
            /\ camera_y' = CameraAxis(camera_y, pl.y, WINDOW_HEIGHT \div 2,
                                      pixel_height - WINDOW_HEIGHT)
       ELSE UNCHANGED <<camera_x, camera_y>>
    /\ pc' = "idle"
    /\ idx' = 1
    /\ frame' = frame + 1
    /\ frame_tiles' = tiles
    /\ UNCHANGED <<tiles, pending, player_id, paused, game_over, score,
                   next_id>>

Next ==
    \/ KeyEscape
    \/ KeySpace
    \/ KeyM
    \/ ControllerUpdate
    \/ EnemyAI
    \/ CallUpdate
    \/ Update
    \/ UpdateEntity
    \/ ShellTank
    \/ ShellPillbox
    \/ TankMineStep
    \/ TankBase
    \/ Cleanup

Spec == Init /\ [][Next]_vars

SpecFlags == InitFlags /\ [][Next]_vars

(***************************************************************************)
(* The tank's resource operations called one by one, in any order, on a    *)
(* tank and a friendly base whose stocks start at the ends of their        *)
(* ranges: Tank.fire, Tank.place_mine, Tank.take_damage with the damages   *)
(* the collision pass passes, Tank.resupply, Base.resupply_tank and the    *)
(* per-frame updates of both.  frame counts the calls.                     *)
(***************************************************************************)
MaxCalls == 4

\* stocks a tank can have come to: armor by hits, shells and mines by use
TankArmors == {1, TANK_MAX_ARMOR}
TankShellStocks == {0, 1, TANK_MAX_SHELLS - 2, TANK_MAX_SHELLS}
TankMineStocks == {0, TANK_MAX_MINES - 1, TANK_MAX_MINES}
\* stocks a base can have come to: as constructed, or handed out
BaseStocks == {<<BASE_INIT_ARMOR, BASE_INIT_SHELLS, BASE_INIT_MINES>>,
               <<0, 0, 0>>}

InitTank ==
    \E a \in TankArmors, sh \in TankShellStocks, mi \in TankMineStocks,
       bs \in BaseStocks :
        /\ tiles = generate_random(InteriorWith("GRASS"))
        /\ entities =
             << [Tank(0, PlayerX, RowY, TEAM_1) EXCEPT !.armor = a,
                                                        !.shells = sh,
                                                        !.mines = mi],
                [Base(1, FriendlyBaseX, RowY, TEAM_1) EXCEPT !.armor = bs[1],
                                                             !.shells = bs[2],
                                                             !.mines = bs[3]] >>
        /\ pending = << >>
        /\ player_id = 0
        /\ camera_x = 0
        /\ camera_y = 0
        /\ paused = FALSE
        /\ game_over = FALSE
        /\ score = 0
        /\ next_id = 2
        /\ pc = "api"
        /\ idx = 1
        /\ frame = 0
        /\ frame_tiles = tiles

\* one call: the live collection afterwards is ents
ApiCall(ents) ==
    /\ pc = "api"
    /\ frame < MaxCalls
    /\ entities' = ents
    /\ frame' = frame + 1
    /\ UNCHANGED <<tiles, pending, player_id, camera_x, camera_y, paused,
                   game_over, score, next_id, pc, idx, frame_tiles>>

\* tank.fire(game_state), the shell it returns dropped
ApiFire == ApiCall([entities EXCEPT ![1] = TankAfterFire(@)])

\* tank.place_mine(game_state), the mine it returns dropped
ApiPlaceMine == ApiCall([entities EXCEPT ![1] = TankAfterPlaceMine(@)])

\* tank.take_damage(n), n a shell's or a mine's damage
ApiTakeDamage ==
    \E n \in {SHELL_DAMAGE, MINE_DAMAGE} :
        ApiCall([entities EXCEPT ![1] = TankTakeDamage(@, n)])

\* tank.resupply(base)
ApiResupply == ApiCall([entities EXCEPT ![1] = TankResupply(@)])

\* base.resupply_tank(tank)
ApiBaseResupply ==
    ApiCall([entities EXCEPT
               ![1] = ResupplyTank_Tank(entities[2], entities[1]),
               ![2] = ResupplyTank_Base(entities[2], entities[1])])

\* one frame's entity.update(game_state) of the tank and of the base
ApiStep ==
    ApiCall([entities EXCEPT ![1] = TankUpdate(@), ![2] = BaseUpdate(@)])

NextTank ==
    \/ ApiFire
    \/ ApiPlaceMine
    \/ ApiTakeDamage
    \/ ApiResupply
    \/ ApiBaseResupply
    \/ ApiStep

SpecTank == InitTank /\ [][NextTank]_vars

(***************************************************************************)
(* The game entered in later states of play: the same frame, keys and      *)
(* enemy AI (Next), started from a live collection and a map as play has   *)
(* left them.                                                              *)
(***************************************************************************)
\* GameState as it stands between two frames with live collection ents, map
\* tl and nid entities constructed so far
ArenaWith(ents, tl, nid) ==
    /\ tiles = tl
    /\ entities = ents
    /\ pending = << >>
    /\ player_id = 0
    /\ camera_x = 0
    /\ camera_y = 0
    /\ paused = FALSE
    /\ game_over = FALSE
    /\ score = 0
    /\ next_id = nid
    /\ pc = "idle"
    /\ idx = 1
    /\ frame = 0
    /\ frame_tiles = tl

\* the player's stocks run down by firing and mine laying: empty, one
\* left, full
InitStocks ==
    \E ex \in InitEnemyX, sh \in {0, 1, TANK_MAX_SHELLS},
       mi \in {0, 1, TANK_MAX_MINES} :
        ArenaWith([SetupEntities(0, TANK_MAX_ARMOR, ex)
                     EXCEPT ![1].shells = sh, ![1].mines = mi],
                  generate_random(InteriorWith("GRASS")), SetupCount)

SpecStocks == InitStocks /\ [][Next]_vars

\* a shell in flight when the model starts: where it is, how many updates
\* it has left, what lies ahead of it, and the east border cell of the row
\* as generated or shot down to rubble
InitShell ==
    \E sx \in {34, 44, pixel_width - 10, pixel_width - 4}, life \in {1, 2},
       kind \in {"GRASS", "WALL", "DAMAGED_WALL"},
       border \in {"WALL", "RUBBLE"} :
        ArenaWith(SetupEntities(0, TANK_MAX_ARMOR, 76)
                    \o << [Shell(SetupCount, sx, RowY, 0, TEAM_1, 0)
                             EXCEPT !.lifetime = life] >>,
                  [generate_random(InteriorWith(kind))
                     EXCEPT ![TileOf(RowY)][MapW - 1] = border],
                  SetupCount + 1)

SpecShell == InitShell /\ [][Next]_vars

\* a mine lying in the field when the model starts: under the player's tank
\* or between the two enemy tanks, laid by either team, on any ground a
\* tank can stand on
InitMine ==
    \E mx \in {PlayerX, 54}, team \in {TEAM_1, TEAM_2},
       kind \in {"GRASS", "FOREST", "SWAMP", "RUBBLE"}, ex \in InitEnemyX :
        ArenaWith(SetupEntities(0, TANK_MAX_ARMOR, ex)
                    \o << Mine(SetupCount, mx, RowY, team) >>,
                  generate_random(InteriorWith(kind)),
                  SetupCount + 1)

SpecMine == InitMine /\ [][Next]_vars

(***************************************************************************)
(* The game with its bases as play may have left them: the base next to    *)
(* the player owned by either team or by nobody, stocked as constructed,   *)
(* nearly handed out or full, both regeneration timers about to run out,   *)
(* and the player's tank full, partly used or nearly spent.                *)
(***************************************************************************)
InitBase ==
    \E bt \in {NEUTRAL, TEAM_1, TEAM_2},
       bs \in {<<BASE_INIT_ARMOR, BASE_INIT_SHELLS, BASE_INIT_MINES>>,
               <<0, 3, 1>>,
               <<BASE_MAX_ARMOR, BASE_MAX_SHELLS, BASE_MAX_MINES>>},
       timer \in {1, 2},
       ts \in {<<TANK_MAX_ARMOR, TANK_MAX_SHELLS, TANK_MAX_MINES>>,
               <<5, TANK_MAX_SHELLS - 3, TANK_MAX_MINES - 1>>,
               <<1, 0, 0>>} :
        ArenaWith([SetupEntities(0, TANK_MAX_ARMOR, 76) EXCEPT
                     ![1].armor = ts[1], ![1].shells = ts[2],
                     ![1].mines = ts[3],
                     ![4].team = bt, ![4].armor = bs[1],
                     ![4].shells = bs[2], ![4].mines = bs[3],
                     ![4].regen_timer = timer,
                     ![5].regen_timer = timer],
                  generate_random(InteriorWith("GRASS")), SetupCount)

SpecBase == InitBase /\ [][Next]_vars

(***************************************************************************)
(* Base.resupply_tank called directly, and one contact of the Tank-Base    *)
(* pass, on a tank next to a base of its own team, of the other team or    *)
(* of nobody.  pc names the call made last, idx is 1 where resupply_tank   *)
(* returned True and 0 where it returned False, frame counts the calls.    *)
(***************************************************************************)
MaxResupplyCalls == 2

InitResupply ==
    \E bt \in {NEUTRAL, TEAM_1, TEAM_2},
       ta \in {1, 5, TANK_MAX_ARMOR},
       tsh \in {0, TANK_MAX_SHELLS - 3, TANK_MAX_SHELLS},
       tm \in {0, TANK_MAX_MINES - 1, TANK_MAX_MINES},
       ba \in {0, BASE_INIT_ARMOR},
       bsh \in {0, 3, BASE_INIT_SHELLS},
       bm \in {0, 1, BASE_INIT_MINES} :
        ArenaWith(<< [Tank(0, PlayerX, RowY, TEAM_1)
                        EXCEPT !.armor = ta, !.shells = tsh, !.mines = tm],
                     [Base(1, FriendlyBaseX, RowY, bt)
                        EXCEPT !.armor = ba, !.shells = bsh, !.mines = bm] >>,
                  generate_random(InteriorWith("GRASS")), 2)

\* Base.resupply_tank: its return value
ResupplyTank_Returns(b, t) ==
    /\ t.team = b.team
    /\ \/ t.armor < TANK_MAX_ARMOR /\ b.armor > 0
       \/ t.shells < TANK_MAX_SHELLS /\ b.shells > 0
       \/ t.mines < TANK_MAX_MINES /\ b.mines > 0

\* one call tag with result arg: the live collection afterwards is ents
ResupplyCall(tag, arg, ents) ==
    /\ pc \in {"idle", "resupply_tank", "contact"}
    /\ frame < MaxResupplyCalls
    /\ pc' = tag
    /\ idx' = arg
    /\ entities' = ents
    /\ frame' = frame + 1
    /\ UNCHANGED <<tiles, pending, player_id, camera_x, camera_y, paused,
                   game_over, score, next_id, frame_tiles>>

\* base.resupply_tank(tank)
ApiResupplyTank ==
    ResupplyCall("resupply_tank",
                 IF ResupplyTank_Returns(entities[2], entities[1])
                 THEN 1 ELSE 0,
                 [entities EXCEPT
                    ![1] = ResupplyTank_Tank(entities[2], entities[1]),
                    ![2] = ResupplyTank_Base(entities[2], entities[1])])

\* the Tank-Base pass for the tank
ApiContact == ResupplyCall("contact", 1, TankBaseAt(entities, 1))

NextResupply ==
    \/ ApiResupplyTank
    \/ ApiContact

SpecResupply == InitResupply /\ [][NextResupply]_vars

(***************************************************************************)
(* The game late in play: of the enemy tanks at most one is left, one hit  *)
(* from destruction, and the pillbox has been captured or not.             *)
(***************************************************************************)
InitEndgame ==
    \E left \in {0, 1}, a \in InitArmor, pt \in {NEUTRAL, TEAM_1} :
        LET S == SetupEntities(0, a, 76) IN
        ArenaWith(<< S[1] >>
                    \o (IF left = 1 THEN << S[2] >> ELSE << >>)
                    \o << S[4], S[5], [S[6] EXCEPT !.team = pt] >>,
                  generate_random(InteriorWith("GRASS")), SetupCount)

SpecEndgame == InitEndgame /\ [][Next]_vars

(***************************************************************************)
(* A tank driven along the row: Tank.move_forward and Tank.move_backward   *)
(* called in any order, between them frames (Tank.update) and damage to    *)
(* the cells of the row.  The tank faces east or west and starts next to   *)
(* a border cell, in the open, or next to the cell drawn at WallTileX;     *)
(* the border cells of the row are whole or shot to rubble.  The tank's    *)
(* position is in hundredths of a pixel.  pc names the call made last,     *)
(* idx is 1 where it changed the tank's position and 0 where not, frame    *)
(* counts the calls.                                                       *)
(***************************************************************************)
MaxMoves == 4

InitMove ==
    \E x0 \in {TANK_SIZE + 1, PlayerX, PillboxX, pixel_width - TANK_SIZE - 1},
       a \in {0, 180},
       kind \in {"GRASS", "WALL", "RIVER", "FOREST"},
       border \in {"WALL", "RUBBLE"} :
        ArenaWith(<< [Tank(0, x0 * SubPixel, RowY * SubPixel, TEAM_1)
                        EXCEPT !.angle = a, !.fire_cooldown = 1] >>,
                  [generate_random(InteriorWith(kind)) EXCEPT
                     ![TileOf(RowY)][0] = border,
                     ![TileOf(RowY)][MapW - 1] = border],
                  1)

\* one call tag: the tank afterwards is t and the tiles are tl
MoveCall(tag, t, tl) ==
    /\ pc \in {"idle", "move_forward", "move_backward", "tank_update",
               "damage_tile"}
    /\ frame < MaxMoves
    /\ pc' = tag
    /\ idx' = IF t.x # entities[1].x \/ t.y # entities[1].y THEN 1 ELSE 0
    /\ entities' = [entities EXCEPT ![1] = t]
    /\ tiles' = tl
    /\ frame' = frame + 1
    /\ UNCHANGED <<pending, player_id, camera_x, camera_y, paused, game_over,
                   score, next_id, frame_tiles>>

\* tank.move_forward(game_state)
ApiMoveForward ==
    MoveCall("move_forward", move_forward(entities[1], tiles), tiles)

\* tank.move_backward(game_state)
ApiMoveBackward ==
    MoveCall("move_backward", move_backward(entities[1], tiles), tiles)

\* tank.update(game_state)
ApiTankUpdate == MoveCall("tank_update", TankUpdate(entities[1]), tiles)

\* game_map.damage_tile(tx, ty) on a cell of the row, as a shell does
ApiDamageTile ==
    \E tx \in {0, WallTileX, MapW - 1} :
        MoveCall("damage_tile", entities[1],
                 damage_tile(tiles, tx, TileOf(RowY)))

NextMove ==
    \/ ApiMoveForward
    \/ ApiMoveBackward
    \/ ApiTankUpdate
    \/ ApiDamageTile

SpecMove == InitMove /\ [][NextMove]_vars

(***************************************************************************)
(* The map's methods called one by one on a fresh or a generated map:      *)
(* GameMap.set_tile and GameMap.damage_tile at cells of the row and at     *)
(* coordinates just outside the grid on every side, generate_random, and   *)
(* the two writes a frame makes (a shell's update, a mine's detonation).   *)
(* pc names the call made last, idx the cell it was aimed at (cells are    *)
(* numbered from 1 row by row, 0 stands for coordinates outside the grid)  *)
(* and frame counts the calls.                                             *)
(***************************************************************************)
MaxMapCalls == 3

\* GameMap.__init__(width, height): every cell GRASS
GridOf(w, h) == [y \in 0 .. h - 1 |-> [x \in 0 .. w - 1 |-> "GRASS"]]

InitMap ==
    \E tl \in {GridOf(MapW, MapH)}
               \cup {generate_random(InteriorWith(kind)) :
                       kind \in {"GRASS", "WALL", "FOREST", "SWAMP"}} :
        ArenaWith(<< >>, tl, 0)

\* one call tag at tile coordinates (tx, ty): the tiles afterwards are tl
MapCall(tag, tx, ty, tl) ==
    /\ pc \in {"idle", "set_tile", "damage_tile", "generate_random",
               "shell_update", "detonate"}
    /\ frame < MaxMapCalls
    /\ pc' = tag
    /\ idx' = IF 0 <= tx /\ tx < MapW /\ 0 <= ty /\ ty < MapH
              THEN 1 + ty * MapW + tx ELSE 0
    /\ tiles' = tl
    /\ frame' = frame + 1
    /\ UNCHANGED <<entities, pending, player_id, camera_x, camera_y, paused,
                   game_over, score, next_id, frame_tiles>>

\* game_map.set_tile(tx, ty, kind)
ApiSetTile ==
    \E tx \in {-1, 0, WallTileX, MapW - 1, MapW}, ty \in {-1, 1, MapH},
       kind \in {"DEEP_WATER", "RIVER", "ROAD", "BOAT"} :
        MapCall("set_tile", tx, ty, set_tile(tiles, tx, ty, kind))

\* game_map.damage_tile(tx, ty)
ApiMapDamageTile ==
    \E tx \in {-1, 0, WallTileX, MapW - 1, MapW}, ty \in {-1, 1, MapH} :
        MapCall("damage_tile", tx, ty, damage_tile(tiles, tx, ty))

\* game_map.generate_random()
ApiGenerateRandom ==
    \E kind \in {"GRASS", "WALL", "FOREST", "SWAMP"} :
        MapCall("generate_random", 0, 0,
                generate_random(InteriorWith(kind)))

\* shell.update(game_state) of a shell flying east, onto the border cell or
\* past the east edge of the grid
ApiShellUpdate ==
    \E sx \in {pixel_width - 20, pixel_width - 4} :
        LET s == Shell(0, sx, RowY, 0, TEAM_1, 0) IN
        MapCall("shell_update", TileOf(ShellMoved(s).x), TileOf(s.y),
                ShellUpdateTiles(s, tiles))

\* mine.detonate(game_state)
ApiDetonate ==
    \E mx \in {PlayerX, WallTileX * TILE_SIZE} :
        LET m == Mine(0, mx, RowY, TEAM_1) IN
        MapCall("detonate", TileOf(m.x), TileOf(m.y),
                DetonateTiles(m, tiles))

NextMap ==
    \/ ApiSetTile
    \/ ApiMapDamageTile
    \/ ApiGenerateRandom
    \/ ApiShellUpdate
    \/ ApiDetonate

SpecMap == InitMap /\ [][NextMap]_vars

(***************************************************************************)
(* The camera: the last lines of GameState.update called again and again   *)
(* on a map of the configured size (64 x 48 tiles, exactly one window) or  *)
(* of a larger one (80 x 60, where the camera has room to move), with the  *)
(* player's tank at its spawn point or in a corner, fresh or one hit from  *)
(* destruction, or with no player at all; between the calls the tank may   *)
(* be hit by a mine.  camera_x and camera_y are in units of 1 / CamUnit    *)
(* pixel, fine enough to hold MaxCameraCalls smoothing steps of one tenth  *)
(* exactly.  pc names the call made last and frame counts the calls.       *)
(***************************************************************************)
MaxCameraCalls == 3

CamUnit == 10 ^ MaxCameraCalls

InitCamera ==
    \E size \in {<<MAP_WIDTH, MAP_HEIGHT>>,
                  <<MAP_WIDTH + 16, MAP_HEIGHT + 12>>},
       a \in InitArmor, qx \in {1, 2, 3}, qy \in {1, 2},
       present \in BOOLEAN :
        LET w == size[1]
            h == size[2]
            x == CASE qx = 1 -> TANK_SIZE
                   [] qx = 2 -> (w * TILE_SIZE) \div 4
                   [] qx = 3 -> w * TILE_SIZE - TANK_SIZE
            y == CASE qy = 1 -> (h * TILE_SIZE) \div 2
                   [] qy = 2 -> h * TILE_SIZE - TANK_SIZE
        IN  ArenaWith(IF present
                      THEN << [Tank(0, x, y, TEAM_1) EXCEPT !.armor = a] >>
                      ELSE << >>,
                      GridOf(w, h), 1)

\* GameState.update, its last lines: `if self.player and self.player.alive:
\* self._update_camera()` on the map held in tiles
ApiUpdateCamera ==
    /\ pc \in {"idle", "update_camera", "take_damage"}
    /\ frame < MaxCameraCalls
    /\ IF PlayerAlive(entities)
       THEN LET pl == entities[PlayerIndex(entities)]
                w == Cardinality(DOMAIN tiles[0]) * TILE_SIZE
                h == Cardinality(DOMAIN tiles) * TILE_SIZE
            IN  /\ camera_x' = CameraAxis(camera_x, pl.x * CamUnit,
                                          (WINDOW_WIDTH \div 2) * CamUnit,
                                          (w - WINDOW_WIDTH) * CamUnit)
                /\ camera_y' = CameraAxis(camera_y, pl.y * CamUnit,
                                          (WINDOW_HEIGHT \div 2) * CamUnit,
                                          (h - WINDOW_HEIGHT) * CamUnit)
       ELSE UNCHANGED <<camera_x, camera_y>>
    /\ pc' = "update_camera"
    /\ frame' = frame + 1
    /\ UNCHANGED <<tiles, entities, pending, player_id, paused, game_over,
                   score, next_id, idx, frame_tiles>>

\* the player's tank runs over a mine: tank.take_damage(mine.damage); the
\* GameState keeps its reference to a destroyed player
ApiPlayerHit ==
    /\ pc \in {"idle", "update_camera", "take_damage"}
    /\ frame < MaxCameraCalls
    /\ entities # << >>
    /\ entities' = [entities EXCEPT ![1] = TankTakeDamage(@, MINE_DAMAGE)]
    /\ pc' = "take_damage"
    /\ frame' = frame + 1
    /\ UNCHANGED <<tiles, pending, player_id, camera_x, camera_y, paused,
                   game_over, score, next_id, idx, frame_tiles>>

NextCamera ==
    \/ ApiUpdateCamera
    \/ ApiPlayerHit

SpecCamera == InitCamera /\ [][NextCamera]_vars

(***************************************************************************)
(* The game with the restart key.  Entity._next_id is a class attribute    *)
(* and outlives the GameState, so the ids of the new setup go on from      *)
(* next_id.  The arena's setup stands for the program's: one player, two   *)
(* of its three enemy tanks, two of its three bases and one of its four    *)
(* pillboxes.                                                              *)
(***************************************************************************)
\* restarts the model follows: one; the player of the first game has id 0
CanRestart == player_id = 0

\* mutant of KeyR: an incremental reset that puts the setup back but keeps
\* the pending buffer
KeyR_KeepsPending ==
    /\ pc = "idle"
    /\ CanRestart
    /\ \E ex \in InitEnemyX, kind \in {"GRASS", "WALL"} :
         /\ tiles' = generate_random(InteriorWith(kind))
         /\ entities' = SetupEntities(next_id, TANK_MAX_ARMOR, ex)
    /\ player_id' = next_id
    /\ camera_x' = 0
    /\ camera_y' = 0
    /\ paused' = FALSE
    /\ game_over' = FALSE
    /\ score' = 0
    /\ next_id' = next_id + SetupCount
    /\ frame_tiles' = tiles'
    /\ UNCHANGED <<pending, pc, idx, frame>>

\* mutant of KeyR: the id counter is reset with the game state
KeyR_ResetsIds ==
    /\ pc = "idle"
    /\ next_id > SetupCount
    /\ \E ex \in InitEnemyX, kind \in {"GRASS", "WALL"} :
         /\ tiles' = generate_random(InteriorWith(kind))
         /\ entities' = SetupEntities(0, TANK_MAX_ARMOR, ex)
    /\ pending' = << >>
    /\ player_id' = 0
    /\ camera_x' = 0
    /\ camera_y' = 0
    /\ paused' = FALSE
    /\ game_over' = FALSE
    /\ score' = 0
    /\ next_id' = SetupCount
    /\ frame_tiles' = tiles'
    /\ UNCHANGED <<pc, idx, frame>>

\* BoloGame._handle_keydown, K_r: self.game_state = GameState() followed by
\* self._setup_game()
KeyR ==
    /\ pc = "idle"
    /\ CanRestart
    /\ \E ex \in InitEnemyX, kind \in {"GRASS", "WALL"} :
         /\ tiles' = generate_random(InteriorWith(kind))
         /\ entities' = SetupEntities(next_id, TANK_MAX_ARMOR, ex)
    /\ pending' = << >>
    /\ player_id' = next_id
    /\ camera_x' = 0
    /\ camera_y' = 0
    /\ paused' = FALSE
    /\ game_over' = FALSE
    /\ score' = 0
    /\ next_id' = next_id + SetupCount
    /\ frame_tiles' = tiles'
    /\ UNCHANGED <<pc, idx, frame>>

NextRestart ==
    \/ Next
    \/ KeyR

SpecRestart == Init /\ [][NextRestart]_vars

(***************************************************************************)
(* The game with a mine in the field and any kind of ground a shell may    *)
(* cross or hit in the middle of the row: the mine lies under the player's *)
(* tank, laid by the other team, or on the middle cell next to the enemy   *)
(* tank when a tank could stand there.                                     *)
(***************************************************************************)
InitTerrain ==
    \E mx \in {PlayerX, 54}, ex \in InitEnemyX,
       kind \in {"GRASS", "FOREST", "SWAMP", "WALL", "DAMAGED_WALL"} :
        /\ mx = 54 => TERRAIN_DATA[kind].passable
        /\ ArenaWith(SetupEntities(0, TANK_MAX_ARMOR, ex)
                       \o << Mine(SetupCount, mx, RowY,
                                  IF mx = PlayerX THEN TEAM_2 ELSE TEAM_1) >>,
                     generate_random(InteriorWith(kind)),
                     SetupCount + 1)

SpecTerrain == InitTerrain /\ [][Next]_vars

(***************************************************************************)
(* The game around a pillbox that shells have worn down: one hit from      *)
(* falling, or fallen already (health 0, inactive, neutral), with the      *)
(* aggression and the cooldown the hits and its own fire left it, and a    *)
(* shell of the second enemy tank about to reach it.                       *)
(***************************************************************************)
InitFallen ==
    \E h \in {0, 1}, ag \in {1, PILLBOX_MAX_AGGRESSION}, cd \in {0, 2},
       ex \in InitEnemyX :
        LET S == SetupEntities(0, TANK_MAX_ARMOR, ex) IN
        ArenaWith([S EXCEPT ![6].health = h, ![6].active = (h > 0),
                            ![6].aggression = ag, ![6].fire_cooldown = cd]
                    \o << Shell(SetupCount, 56, RowY, 180, TEAM_2, 2) >>,
                  generate_random(InteriorWith("GRASS")), SetupCount + 1)

SpecFallen == InitFallen /\ [][Next]_vars

(***************************************************************************)
(* One tank over many frames: the fire key (or the enemy trigger) pressed  *)
(* any number of times between updates, the pause key, and update() with   *)
(* its merge and the tank's Tank.update.  The shells merged into the live  *)
(* collection are left out; frame counts the calls, idx the Tank.update    *)
(* calls since the tank last fired, pc names the call made last.           *)
(***************************************************************************)
MaxFireCalls == 14

InitFire ==
    \E sh \in {1, 2, TANK_MAX_SHELLS} :
        /\ tiles = generate_random(InteriorWith("GRASS"))
        /\ entities = << [Tank(0, PlayerX, RowY, TEAM_1) EXCEPT !.shells = sh] >>
        /\ pending = << >>
        /\ player_id = 0
        /\ camera_x = 0
        /\ camera_y = 0
        /\ paused = FALSE
        /\ game_over = FALSE
        /\ score = 0
        /\ next_id = 1
        /\ pc = "new"
        /\ idx = 0
        /\ frame = 0
        /\ frame_tiles = tiles

\* shell = tank.fire(game_state); if shell: add_entity(shell)
ApiFireKey ==
    /\ frame < MaxFireCalls
    /\ LET t == entities[1] IN
       IF CanFire(t)
       THEN /\ entities' = [entities EXCEPT ![1] = TankAfterFire(t)]
            /\ pending' = add_entity(pending, TankShell(t, next_id))
            /\ next_id' = next_id + 1
            /\ idx' = 0
       ELSE UNCHANGED <<entities, pending, next_id, idx>>
    /\ pc' = "fire"
    /\ frame' = frame + 1
    /\ UNCHANGED <<tiles, player_id, camera_x, camera_y, paused, game_over,
                   score, frame_tiles>>

\* K_ESCAPE
ApiPauseKey ==
    /\ frame < MaxFireCalls
    /\ paused' = ~paused
    /\ pc' = "pause"
    /\ frame' = frame + 1
    /\ UNCHANGED <<tiles, entities, pending, player_id, camera_x, camera_y,
                   game_over, score, next_id, idx, frame_tiles>>

\* GameState.update(): nothing when paused, else the merge and Tank.update
ApiFrame ==
    /\ frame < MaxFireCalls
    /\ IF paused
       THEN /\ pc' = "paused"
            /\ UNCHANGED <<entities, pending, idx>>
       ELSE /\ entities' = [entities EXCEPT ![1] = TankUpdate(@)]
            /\ pending' = ClearPending(pending)
            /\ idx' = idx + 1
            /\ pc' = "update"
    /\ frame' = frame + 1
    /\ UNCHANGED <<tiles, player_id, camera_x, camera_y, paused, game_over,
                   score, next_id, frame_tiles>>

NextFire ==
    \/ ApiFireKey
    \/ ApiPauseKey
    \/ ApiFrame

SpecFire == InitFire /\ [][NextFire]_vars

(***************************************************************************)
(* The pillbox's methods called one by one, in any order, on a pillbox     *)
(* with two tanks about it: Pillbox.take_damage with a shell's damage,     *)
(* Pillbox.capture and Pillbox.update.  pc names the method called last,   *)
(* idx holds its argument (1 where it has none) and frame counts the       *)
(* calls.                                                                  *)
(***************************************************************************)
MaxPillboxCalls == 7

\* where _setup_game puts its second pillbox: 150 + 1 * 200
PillboxSpawnX == 350

\* a pillbox as play may have left it: fresh, shot at, one hit from falling,
\* or fallen (take_damage has neutralised it right after it fired at full
\* aggression, its cooldown of max(5, 30 - 8 * 3) = 6 still to run)
WornPillboxes ==
    {[Pillbox(0, PillboxSpawnX, RowY, team)
        EXCEPT !.health = h, !.aggression = a, !.fire_cooldown = c] :
       team \in {NEUTRAL, TEAM_2}, h \in {1, PILLBOX_MAX_HEALTH},
       a \in {0, 7, 8}, c \in {0, 1}}
    \cup {[Pillbox(0, PillboxSpawnX, RowY, NEUTRAL)
             EXCEPT !.health = 0, !.active = FALSE, !.aggression = 8,
                    !.fire_cooldown = 6]}

InitPillbox ==
    \E p \in WornPillboxes, da \in {-150, -20, 20}, db \in {-149, -20, 20},
       ta \in {TEAM_1, TEAM_2} :
        /\ ArenaWith(<< p,
                        Tank(1, PillboxSpawnX + da, RowY, ta),
                        Tank(2, PillboxSpawnX + db, RowY, TEAM_1) >>,
                     generate_random(InteriorWith("GRASS")), 3)
        /\ da # db

\* one call of method tag with argument arg: the live collection afterwards
\* is ents and the pending buffer pend
PillboxCall(tag, arg, ents, pend) ==
    /\ pc \in {"idle", "take_damage", "capture", "pillbox_update"}
    /\ frame < MaxPillboxCalls
    /\ pc' = tag
    /\ idx' = arg
    /\ entities' = ents
    /\ pending' = pend
    /\ next_id' = next_id + (Len(pend) - Len(pending))
    /\ frame' = frame + 1
    /\ UNCHANGED <<tiles, player_id, camera_x, camera_y, paused, game_over,
                   score, frame_tiles>>

\* pillbox.take_damage(shell.damage)
ApiPillboxTakeDamage ==
    PillboxCall("take_damage", SHELL_DAMAGE,
                [entities EXCEPT ![1] = PillboxTakeDamage(@, SHELL_DAMAGE)],
                pending)

\* pillbox.capture(new_team)
ApiPillboxCapture ==
    \E t \in {TEAM_1, TEAM_2} :
        PillboxCall("capture", t,
                    [entities EXCEPT ![1] = PillboxCapture(@, t)], pending)

\* pillbox.update(game_state)
ApiPillboxUpdate ==
    \E decay \in IF entities[1].active /\ entities[1].aggression > 0
                 THEN BOOLEAN ELSE {FALSE} :
        PillboxCall("pillbox_update", 1,
                    [entities EXCEPT
                       ![1] = PillboxUpdate(@, decay, entities)],
                    EntityUpdatePending(entities[1], decay, entities,
                                        pending, next_id))

NextPillbox ==
    \/ ApiPillboxTakeDamage
    \/ ApiPillboxCapture
    \/ ApiPillboxUpdate

SpecPillbox == InitPillbox /\ [][NextPillbox]_vars

(***************************************************************************)
(* Properties.                                                             *)
(***************************************************************************)
Ids(seq) == {seq[k].id : k \in DOMAIN seq}
IdSeq(seq) == [k \in DOMAIN seq |-> seq[k].id]
UpdateLoops == {"update", "shell_tank", "shell_pillbox", "tank_mine",
                "tank_base"}
CollisionOrder == <<"shell_tank", "shell_pillbox", "tank_mine", "tank_base",
                    "cleanup">>
\* the entities at the positions whose record a step changes
Changed == {j \in DOMAIN entities : entities'[j] # entities[j]}

\* C1: a call of GameState.update() that finds paused or game_over set
\* returns at once: the live collection (members, order, every field), the
\* pending buffer (so nothing is merged), every tile and the camera are as
\* before.
C1_PausedUpdateIsNoOp ==
    [][(pc = "enter" /\ (paused \/ game_over)) =>
          /\ pc' = "idle"
          /\ entities' = entities
          /\ pending' = pending
          /\ tiles' = tiles
          /\ camera_x' = camera_x
          /\ camera_y' = camera_y]_vars

\* update() has been called with game_over set, not paused, and entities
\* waiting in the pending buffer
C1_Witness == pc = "enter" /\ game_over /\ ~paused /\ pending # << >>

\* C2: what add_entity receives during a frame stays out of the live
\* collection for the rest of that frame (the update loop and the whole
\* collision pass leave the membership and order of the live collection as
\* the merge made them); the merge of the next unpaused update appends the
\* whole buffer to the live collection and leaves the buffer empty.
C2_PendingJoinsAtNextMerge ==
    [][/\ Ids(pending') \cap Ids(entities') = {}
       /\ (pc \in UpdateLoops => IdSeq(entities') = IdSeq(entities))
       /\ (pc = "enter" /\ ~(paused \/ game_over) =>
              /\ entities' = entities \o pending
              /\ pending' = << >>)]_vars

\* right after a merge: the buffer is empty and a shell a pillbox fired in
\* an earlier frame is now in the live collection
C2_Witness ==
    /\ pc = "update" /\ idx = 1 /\ pending = << >>
    /\ \E k \in DOMAIN entities, q \in DOMAIN entities :
          /\ IsShell(entities[k]) /\ IsPillbox(entities[q])
          /\ entities[k].owner_id = entities[q].id

\* C3: the collision pass runs its four loops in the order Shell-Tank,
\* Shell-Pillbox, Tank-Mine, Tank-Base, each through the whole collection
\* before the next; each loop touches only its two kinds; and a tank that is
\* not alive when the Tank-Mine and Tank-Base loops run (a shell of this
\* pass destroyed it) is not damaged, detonates no mine, receives no
\* supplies and captures no base.
C3_CategoryOrder ==
    [][/\ (pc \in UpdateLoops /\ pc' # pc =>
              /\ idx = Len(entities)
              /\ idx' = 1
              /\ \/ pc = "update" /\ pc' = "shell_tank"
                 \/ \E k \in 1 .. 4 : pc = CollisionOrder[k]
                                       /\ pc' = CollisionOrder[k + 1])
       /\ (pc = "shell_tank" =>
              \A j \in Changed : entities[j].kind \in {"Shell", "Tank"})
       /\ (pc = "shell_pillbox" =>
              \A j \in Changed : entities[j].kind \in {"Shell", "Pillbox"})
       /\ (pc = "tank_mine" =>
              \A j \in Changed : entities[j].kind \in {"Mine", "Tank"})
       /\ (pc = "tank_base" =>
              \A j \in Changed : entities[j].kind \in {"Tank", "Base"})
       /\ (pc \in {"tank_mine", "tank_base"} =>
              \A j \in Changed : IsTank(entities[j]) => entities[j].alive)
       /\ (pc = "tank_mine" /\ Changed # {} =>
              \E j \in Changed : IsTank(entities[j]) /\ entities[j].alive)
       /\ (pc = "tank_base" /\ ~(IsTank(entities[idx]) /\ entities[idx].alive)
              => Changed = {})
       /\ (pc \in {"shell_tank", "shell_pillbox", "tank_base"} =>
              tiles' = tiles)]_vars

\* the Tank-Base loop has just passed a tank that a shell destroyed in this
\* pass (armor 0), while an enemy mine lies in reach of it, still alive,
\* and a NEUTRAL base in contact with it is still NEUTRAL
C3_Witness ==
    /\ pc = "tank_base" /\ idx > 1
    /\ LET t == entities[idx - 1] IN
       /\ IsTank(t) /\ ~t.alive /\ t.armor = 0
       /\ \E m \in DOMAIN entities :
             /\ IsMine(entities[m]) /\ entities[m].alive
             /\ entities[m].team # t.team
             /\ Within(entities[m], t, TANK_SIZE + MINE_RADIUS)
       /\ \E b \in DOMAIN entities :
             /\ IsBase(entities[b]) /\ entities[b].team = NEUTRAL
             /\ Within(entities[b], t, TANK_SIZE + BASE_SIZE)

\* C4: when an unpaused update() returns, every entity of the live
\* collection is alive; and an entity that is not alive is never alive
\* again, in the live collection or the pending buffer.
C4_DeadArePurgedNeverRevived ==
    [][/\ (pc = "cleanup" =>
              /\ pc' = "idle"
              /\ \A k \in DOMAIN entities' : entities'[k].alive)
       /\ \A j \in DOMAIN entities :
             ~entities[j].alive =>
                \A k \in DOMAIN entities' :
                   entities'[k].id = entities[j].id => ~entities'[k].alive
       /\ \A j \in DOMAIN entities :
             ~entities[j].alive => entities[j].id \notin Ids(pending')]_vars

\* an update has returned after purging the first enemy tank
C4_Witness ==
    /\ pc = "idle" /\ frame >= 1
    /\ Len(entities) < SetupCount
    /\ \A k \in DOMAIN entities : entities[k].alive


\* C5: one iteration of the Shell-Tank or the Shell-Pillbox loop applies
\* damage to at most one target, only for a shell that is alive, and leaves
\* that shell not alive; a shell that is not alive changes nothing.  So a
\* shell that hit a tank is skipped when the pillboxes are scanned, and a
\* shell damages at most one target in a frame.
C5_OneDamagePerShell ==
    [][(pc \in {"shell_tank", "shell_pillbox"}) =>
         LET s == entities[idx]
             D == Changed \ {idx}
         IN  /\ Cardinality(D) <= 1
             /\ (D # {} => IsShell(s) /\ s.alive /\ ~entities'[idx].alive)
             /\ (~(IsShell(s) /\ s.alive) => Changed = {})
             /\ \A j \in D :
                  \/ /\ IsTank(entities[j])
                     /\ entities'[j].armor = entities[j].armor - SHELL_DAMAGE
                  \/ /\ IsPillbox(entities[j])
                     /\ entities'[j].health =
                          entities[j].health - SHELL_DAMAGE
        ]_vars

\* the Shell-Pillbox loop is at a shell that is not alive although its
\* lifetime is left and its cell is open (a tank took it in this pass),
\* with an active pillbox of another team in its reach
C5_Witness ==
    /\ pc = "shell_pillbox"
    /\ LET s == entities[idx] IN
       /\ IsShell(s) /\ ~s.alive /\ s.lifetime > 0
       /\ ~TERRAIN_DATA[get_tile(tiles, TileOf(s.x), TileOf(s.y))].blocks_shots
       /\ \E q \in DOMAIN entities :
             /\ IsPillbox(entities[q]) /\ entities[q].active
             /\ entities[q].team # s.team
             /\ Within(s, entities[q], PILLBOX_SIZE + SHELL_RADIUS)

\* C6: in the collision pass a shell changes no tank whose id is its
\* owner_id and no tank or pillbox of its own team, and a mine changes no
\* tank of its own team and is detonated only together with damage to a
\* tank of another team.
C6_NoFriendlyFire ==
    [][/\ (pc = "shell_tank" =>
             \A j \in Changed \ {idx} :
                /\ entities[j].id # entities[idx].owner_id
                /\ entities[j].team # entities[idx].team)
       /\ (pc = "shell_pillbox" =>
             \A j \in Changed \ {idx} :
                entities[j].team # entities[idx].team)
       /\ (pc = "tank_mine" =>
             /\ \A j \in Changed \ {idx} :
                   entities[j].team # entities[idx].team
             /\ (idx \in Changed =>
                   \E j \in Changed \ {idx} :
                      /\ entities[j].team # entities[idx].team
                      /\ entities'[j].armor < entities[j].armor))
        ]_vars

\* the Shell-Tank loop has run through and left alive a shell that lies in
\* the reach of a tank of its own team, that tank unharmed
C6_Witness ==
    /\ pc = "shell_pillbox" /\ idx = 1
    /\ \E k \in DOMAIN entities, j \in DOMAIN entities :
          /\ IsShell(entities[k]) /\ entities[k].alive
          /\ IsTank(entities[j]) /\ entities[j].alive
          /\ entities[j].team = entities[k].team
          /\ entities[j].id # entities[k].owner_id
          /\ Within(entities[k], entities[j], TANK_SIZE + SHELL_RADIUS)

\* a tank the claim calls qualifying for shell s
C7_Qualifies(s, o) ==
    /\ IsTank(o) /\ o.alive
    /\ o.id # s.owner_id
    /\ o.team # s.team
    /\ Dist2(s, o) < (TANK_SIZE + SHELL_RADIUS) * (TANK_SIZE + SHELL_RADIUS)

\* C7: the Shell-Tank iteration of a live shell with a qualifying tank
\* takes the shell's damage off the armor of the first qualifying tank in
\* the order of the live collection, marks the shell not alive and leaves
\* the armor of every other tank as it was.
C7_FirstQualifyingTank ==
    [][pc = "shell_tank" /\ IsShell(entities[idx]) /\ entities[idx].alive =>
         LET s == entities[idx]
             Q == {j \in DOMAIN entities : C7_Qualifies(s, entities[j])}
         IN  Q # {} =>
               LET f == CHOOSE j \in Q : \A k \in Q : j <= k IN
               /\ entities'[f].armor = entities[f].armor - SHELL_DAMAGE
               /\ ~entities'[idx].alive
               /\ \A j \in DOMAIN entities :
                     IsTank(entities[j]) /\ j # f =>
                        entities'[j].armor = entities[j].armor
        ]_vars

\* a shell has hit the first of two tanks in its reach although the second
\* is nearer: the first has lost one armor, the second has all of its own
C7_Witness ==
    /\ pc = "shell_pillbox"
    /\ \E i \in DOMAIN entities, j \in DOMAIN entities, k \in DOMAIN entities :
          /\ IsShell(entities[i]) /\ ~entities[i].alive
          /\ IsTank(entities[j]) /\ IsTank(entities[k]) /\ j < k
          /\ entities[j].team # entities[i].team
          /\ entities[k].team # entities[i].team
          /\ Within(entities[i], entities[j], TANK_SIZE + SHELL_RADIUS)
          /\ Within(entities[i], entities[k], TANK_SIZE + SHELL_RADIUS)
          /\ Dist2(entities[i], entities[k]) < Dist2(entities[i], entities[j])
          /\ entities[j].armor = TANK_MAX_ARMOR - SHELL_DAMAGE
          /\ entities[k].armor = TANK_MAX_ARMOR

\* C9: a tank's armor goes down only by a hit of the collision pass on a
\* tank that is alive: by SHELL_DAMAGE in the Shell-Tank loop, by
\* MINE_DAMAGE in the Tank-Mine loop; the hit leaves the tank alive exactly
\* when the armor left is positive; a tank stops being alive only that way
\* and is never alive again; and when an unpaused update() returns every
\* tank of the live collection has armor >= 1.
C9_TankDamage ==
    [][/\ (pc \in UpdateLoops =>
             \A j \in DOMAIN entities :
                IsTank(entities[j]) =>
                   LET t == entities[j]
                       u == entities'[j]
                   IN  /\ (u.armor < t.armor =>
                             /\ t.alive
                             /\ pc \in {"shell_tank", "tank_mine"}
                             /\ u.armor = t.armor -
                                  (IF pc = "shell_tank" THEN SHELL_DAMAGE
                                   ELSE MINE_DAMAGE)
                             /\ u.alive = (u.armor > 0))
                       /\ (t.alive /\ ~u.alive =>
                             u.armor < t.armor /\ u.armor <= 0)
                       /\ (~t.alive => ~u.alive))
       /\ (pc \notin UpdateLoops =>
             \A j \in DOMAIN entities, k \in DOMAIN entities' :
                IsTank(entities[j]) /\ entities'[k].id = entities[j].id =>
                   /\ entities'[k].armor = entities[j].armor
                   /\ entities'[k].alive = entities[j].alive)
       /\ (pc = "cleanup" =>
             \A k \in DOMAIN entities' :
                IsTank(entities'[k]) => entities'[k].armor >= 1)
        ]_vars

\* the collision pass is over and has left in the live collection a tank
\* that is not alive, its armor at or below zero
C9_Witness ==
    /\ pc = "cleanup"
    /\ \E j \in DOMAIN entities :
          /\ IsTank(entities[j]) /\ ~entities[j].alive
          /\ entities[j].armor <= 0

\* C8: in the entity-update step no update observes what another update of
\* the same frame has modified: a live shell with lifetime left tests the
\* cell it moves into as that cell was when the frame's update step began
\* (frame_tiles): it dies exactly when that cell blocked shots then (or it
\* left the map), and the cell becomes what one damage makes of its state
\* at the start of the step.
C8_UpdateSeesFrameStart ==
    [][pc = "update" /\ IsShell(entities[idx]) /\ entities[idx].alive =>
         LET s == entities[idx]
             nx == s.x + Cos(s.angle) * SHELL_SPEED
             ny == s.y + Sin(s.angle) * SHELL_SPEED
             cx == nx \div TILE_SIZE
             cy == ny \div TILE_SIZE
             start == get_tile(frame_tiles, cx, cy)
             once == CASE start = "WALL"         -> "DAMAGED_WALL"
                       [] start = "DAMAGED_WALL" -> "RUBBLE"
                       [] start = "FOREST"       -> "GRASS"
                       [] start = "SWAMP"        -> "CRATER"
                       [] OTHER                  -> start
         IN  (s.lifetime > 1 /\ InGrid(cx, cy)) =>
               /\ entities'[idx].alive =
                    ~(TERRAIN_DATA[start].blocks_shots
                        \/ nx > pixel_width \/ ny > pixel_height)
               /\ get_tile(tiles', cx, cy) =
                    (IF TERRAIN_DATA[start].blocks_shots THEN once ELSE start)
        ]_vars

\* C10: whatever sequence of fire, place_mine, take_damage, Tank.resupply,
\* Base.resupply_tank and update calls a tank goes through, in every state
\* its armor is at most 8, its shells are from 0 to 40 and its mines are
\* from 0 to 40.
C10_ResourceBounds ==
    \A j \in DOMAIN entities :
        IsTank(entities[j]) =>
            /\ entities[j].armor <= 8
            /\ 0 <= entities[j].shells /\ entities[j].shells <= 40
            /\ 0 <= entities[j].mines /\ entities[j].mines <= 40

\* Base.resupply_tank has filled a tank that had room for fewer shells than
\* a full transfer: the tank is at all three maxima and the base has given
\* just two shells
C10_Witness ==
    /\ pc = "api" /\ frame > 0
    /\ entities[1].armor = 8
    /\ entities[1].shells = 40
    /\ entities[1].mines = 40
    /\ entities[2].shells = BASE_INIT_SHELLS - 2

\* C11: Tank.fire, called by the fire key or by the enemy AI, changes the
\* tank's shells or cooldown or hands out a shell only when the cooldown was
\* not positive and shells were in stock; it then takes exactly one shell
\* off the stock, sets fire_cooldown to fire_rate (10) and returns exactly
\* one new shell with the tank's team and the tank's id as owner_id; every
\* other field of the tank is left alone.  With a cooldown running or no
\* shells nothing of that happens.
C11_Fire ==
    [][(pc \in {"idle", "ai"}) =>
         \A j \in DOMAIN entities :
            IsTank(entities[j]) =>
               LET t == entities[j]
                   u == entities'[j]
                   new == {k \in DOMAIN pending' :
                             /\ k > Len(pending)
                             /\ IsShell(pending'[k])
                             /\ pending'[k].owner_id = t.id}
               IN  /\ (t.fire_cooldown > 0 \/ t.shells <= 0 =>
                          /\ u.shells = t.shells
                          /\ u.fire_cooldown = t.fire_cooldown
                          /\ new = {})
                   /\ (u.shells # t.shells \/ u.fire_cooldown # t.fire_cooldown
                          \/ new # {} =>
                          /\ u.shells = t.shells - 1
                          /\ u.fire_cooldown = 10
                          /\ Len(pending') = Len(pending) + 1
                          /\ new = {Len(pending')}
                          /\ pending'[Len(pending')].team = t.team
                          /\ pending'[Len(pending')].alive
                          /\ u = [t EXCEPT !.shells = u.shells,
                                           !.fire_cooldown = u.fire_cooldown,
                                           !.angle = u.angle])
        ]_vars

\* the player's tank has fired its last shell: the stock is 0, the cooldown
\* runs and the shell waits in the pending buffer
C11_Witness ==
    /\ pc = "idle"
    /\ PlayerAlive(entities)
    /\ LET t == entities[PlayerIndex(entities)] IN
       /\ t.shells = 0
       /\ t.fire_cooldown = 10
       /\ \E k \in DOMAIN pending :
             /\ IsShell(pending[k])
             /\ pending[k].owner_id = t.id
             /\ pending[k].team = t.team

\* C12: Tank.place_mine, called by the mine key on the player's tank, does
\* nothing when mines <= 0; otherwise it takes exactly one mine off the
\* stock and returns exactly one new mine at the tank's position with the
\* tank's team, the rest of the tank left alone; no other tank's mine stock
\* ever changes.  In the Tank-Mine loop a mine leaves every tank of its own
\* team as it was, the tank that placed it included, and detonates only on
\* a tank of another team.
C12_PlaceMine ==
    [][/\ (pc = "idle" /\ PlayerAlive(entities) =>
             LET t == entities[PlayerIndex(entities)]
                 u == entities'[PlayerIndex(entities)]
                 new == {k \in DOMAIN pending' :
                           k > Len(pending) /\ IsMine(pending'[k])}
             IN  /\ (t.mines <= 0 => u.mines = t.mines /\ new = {})
                 /\ (u.mines # t.mines \/ new # {} =>
                       /\ u.mines = t.mines - 1
                       /\ u = [t EXCEPT !.mines = u.mines]
                       /\ Len(pending') = Len(pending) + 1
                       /\ new = {Len(pending')}
                       /\ pending'[Len(pending')].x = t.x
                       /\ pending'[Len(pending')].y = t.y
                       /\ pending'[Len(pending')].team = t.team
                       /\ pending'[Len(pending')].alive))
       /\ (pc \in UpdateLoops \/ pc = "ai" =>
             \A j \in DOMAIN entities :
                IsTank(entities[j]) =>
                   entities'[j].mines = entities[j].mines
                      \/ (pc = "tank_base"
                            /\ entities'[j].mines > entities[j].mines))
       /\ (pc = "tank_mine" /\ IsMine(entities[idx]) =>
             /\ \A j \in DOMAIN entities :
                   IsTank(entities[j])
                      /\ entities[j].team = entities[idx].team =>
                         entities'[j] = entities[j]
             /\ (entities'[idx] # entities[idx] =>
                   \E j \in DOMAIN entities :
                      /\ IsTank(entities[j])
                      /\ entities[j].team # entities[idx].team
                      /\ entities'[j].armor < entities[j].armor))
        ]_vars

\* the Tank-Mine loop is over: the mine the player laid from a stock of one
\* has gone off under the player's tank, which is first in the collection
\* and has all its armor, while a tank of the other team took the damage
C12_Witness ==
    /\ pc = "tank_base"
    /\ PlayerAlive(entities)
    /\ LET t == entities[PlayerIndex(entities)] IN
       /\ t.mines = 0
       /\ t.armor = 8
       /\ \E k \in DOMAIN entities, j \in DOMAIN entities :
             /\ IsMine(entities[k]) /\ ~entities[k].alive
             /\ entities[k].x = t.x /\ entities[k].y = t.y
             /\ entities[k].team = t.team
             /\ IsTank(entities[j]) /\ entities[j].team # t.team
             /\ entities[j].armor = 8 - 4

\* C13 as claimed: whenever the update of a live shell has moved it onto a
\* projectile-blocking destructible cell of the grid, that update advances
\* the cell one step of the damage table.
C13_BlockingCellAlwaysDamaged ==
    [][pc = "update" /\ IsShell(entities[idx]) /\ entities[idx].alive =>
         LET s == entities[idx]
             cx == (s.x + Cos(s.angle) * SHELL_SPEED) \div TILE_SIZE
             cy == (s.y + Sin(s.angle) * SHELL_SPEED) \div TILE_SIZE
             was == get_tile(tiles, cx, cy)
         IN  (InGrid(cx, cy) /\ was \in {"WALL", "DAMAGED_WALL"}) =>
                get_tile(tiles', cx, cy) =
                   (IF was = "WALL" THEN "DAMAGED_WALL" ELSE "RUBBLE")
        ]_vars

\* C13: the update of a live shell moves it and takes one off its lifetime;
\* the shell stays alive exactly when the lifetime left is positive, the
\* cell it is on does not block projectiles and it is inside the pixel
\* bounds.  The cell is advanced exactly one step of the damage table when
\* the lifetime left is positive and the cell blocks projectiles and is
\* destructible; when the lifetime has run out in that update the shell is
\* destroyed before the terrain is looked at and no cell changes.
C13_ShellUpdate ==
    [][pc = "update" /\ IsShell(entities[idx]) /\ entities[idx].alive =>
         LET s == entities[idx]
             u == entities'[idx]
             nx == s.x + Cos(s.angle) * SHELL_SPEED
             ny == s.y + Sin(s.angle) * SHELL_SPEED
             cx == nx \div TILE_SIZE
             cy == ny \div TILE_SIZE
             was == get_tile(tiles, cx, cy)
             expired == s.lifetime - 1 <= 0
             blocked == was \in {"WALL", "DAMAGED_WALL"}
             outside == nx < 0 \/ nx > MapW * TILE_SIZE
                          \/ ny < 0 \/ ny > MapH * TILE_SIZE
         IN  /\ u.x = nx /\ u.y = ny /\ u.lifetime = s.lifetime - 1
             /\ u.alive = ~(expired \/ blocked \/ outside)
             /\ IF ~expired /\ blocked /\ InGrid(cx, cy)
                THEN /\ tiles'[cy][cx] =
                          (IF was = "WALL" THEN "DAMAGED_WALL" ELSE "RUBBLE")
                     /\ \A y \in 0 .. MapH - 1, x \in 0 .. MapW - 1 :
                           (x # cx \/ y # cy) => tiles'[y][x] = tiles[y][x]
                ELSE tiles' = tiles
        ]_vars

\* a shell's last update has moved it onto a wall: the shell is destroyed,
\* its lifetime at 0, and the wall is as whole as the frame found it
C13_Witness ==
    /\ pc \in {"update", "shell_tank"}
    /\ \E k \in DOMAIN entities :
          /\ IsShell(entities[k]) /\ ~entities[k].alive
          /\ entities[k].lifetime = 0
          /\ InGrid(TileOf(entities[k].x), TileOf(entities[k].y))
          /\ get_tile(tiles, TileOf(entities[k].x), TileOf(entities[k].y))
               = "WALL"
          /\ get_tile(frame_tiles, TileOf(entities[k].x),
                      TileOf(entities[k].y)) = "WALL"

\* C14: each update of a live shell takes exactly one off its lifetime and
\* leaves it alive only with a positive lifetime left, so a shell of
\* lifetime 1 is destroyed by one update whatever it meets; between frames
\* every shell of the live collection is alive with a lifetime from 1 to
\* SHELL_LIFETIME - 1, and the shell that started with at most two updates
\* left is out of the live collection once two frames have run.
C14_ShellExpires ==
    [][/\ (pc = "update" /\ IsShell(entities[idx]) /\ entities[idx].alive =>
             /\ entities'[idx].lifetime = entities[idx].lifetime - 1
             /\ (entities'[idx].alive => entities'[idx].lifetime >= 1)
             /\ (entities[idx].lifetime = 1 => ~entities'[idx].alive))
       /\ (pc' = "update" /\ pc # "update" =>
             \A k \in DOMAIN entities' :
                IsShell(entities'[k]) =>
                   /\ entities'[k].alive
                   /\ entities'[k].lifetime >= 1
                   /\ entities'[k].lifetime <= 90)
       /\ (pc' = "idle" =>
             \A k \in DOMAIN entities' :
                IsShell(entities'[k]) =>
                   /\ entities'[k].alive
                   /\ entities'[k].lifetime >= 1
                   /\ entities'[k].lifetime <= 90 - 1
                   /\ (entities'[k].id = SetupCount => frame' < 2))
        ]_vars

\* the update loop is over and a shell lies destroyed by its lifetime
\* alone: on an open cell inside the map, with no tank or pillbox of
\* another team in reach
C14_Witness ==
    /\ pc = "shell_tank" /\ idx = 1
    /\ \E k \in DOMAIN entities :
          LET s == entities[k] IN
          /\ IsShell(s) /\ ~s.alive /\ s.lifetime = 0
          /\ InGrid(TileOf(s.x), TileOf(s.y))
          /\ get_tile(tiles, TileOf(s.x), TileOf(s.y)) \in {"GRASS", "RUBBLE"}
          /\ \A j \in DOMAIN entities :
                (IsTank(entities[j]) \/ IsPillbox(entities[j])) =>
                   ~Within(s, entities[j], TANK_SIZE + SHELL_RADIUS)

\* C15: the Tank-Mine iteration of a live mine with a qualifying tank
\* (alive, other team, nearer than tank.size + mine.radius) takes
\* MINE_DAMAGE (4) off the armor of the first such tank in the order of the
\* live collection and of no other tank, sets the cell under the mine to
\* CRATER whatever it was, all other cells left alone, and marks the mine
\* not alive; with no qualifying tank, or for a mine that is not alive,
\* the iteration changes nothing, so a mine damages one tank at most.
C15_MineDetonation ==
    [][pc = "tank_mine" /\ IsMine(entities[idx]) =>
         LET m == entities[idx]
             Q == {j \in DOMAIN entities :
                     /\ IsTank(entities[j]) /\ entities[j].alive
                     /\ entities[j].team # m.team
                     /\ Dist2(m, entities[j]) < (12 + 6) * (12 + 6)}
             cx == m.x \div TILE_SIZE
             cy == m.y \div TILE_SIZE
         IN  IF m.alive /\ Q # {}
             THEN LET f == CHOOSE j \in Q : \A k \in Q : j <= k IN
                  /\ entities'[f].armor = entities[f].armor - 4
                  /\ \A j \in DOMAIN entities :
                        j # f /\ j # idx => entities'[j] = entities[j]
                  /\ ~entities'[idx].alive
                  /\ tiles'[cy][cx] = "CRATER"
                  /\ \A y \in 0 .. MapH - 1, x \in 0 .. MapW - 1 :
                        (x # cx \/ y # cy) => tiles'[y][x] = tiles[y][x]
             ELSE entities' = entities /\ tiles' = tiles
        ]_vars

\* the Tank-Mine loop is over: a mine has gone off on forest, now a crater;
\* of the two tanks of the other team in its reach the first in the
\* collection has lost 4 armor and the nearer, later one has lost none
C15_Witness ==
    /\ pc = "tank_base"
    /\ \E k \in DOMAIN entities, i \in DOMAIN entities, j \in DOMAIN entities :
          LET m == entities[k] IN
          /\ IsMine(m) /\ ~m.alive
          /\ get_tile(tiles, TileOf(m.x), TileOf(m.y)) = "CRATER"
          /\ get_tile(frame_tiles, TileOf(m.x), TileOf(m.y)) = "FOREST"
          /\ IsTank(entities[i]) /\ IsTank(entities[j]) /\ i < j
          /\ entities[i].team # m.team /\ entities[j].team # m.team
          /\ Within(m, entities[i], TANK_SIZE + MINE_RADIUS)
          /\ Within(m, entities[j], TANK_SIZE + MINE_RADIUS)
          /\ Dist2(m, entities[j]) < Dist2(m, entities[i])
          /\ entities[i].armor = 8 - 4
          /\ entities[j].armor = 8

\* C16: Mine.update changes nothing: not the mine, not the map, not any
\* other entity, not the pending buffer.  A mine stops being alive only in
\* its own iteration of the Tank-Mine loop, together with damage to a tank
\* of another team; in every other step every mine of the live collection
\* is exactly as it was, and the purge keeps a live mine.
C16_MineIsPassive ==
    [][/\ (pc = "update" /\ IsMine(entities[idx]) =>
             entities' = entities /\ tiles' = tiles /\ pending' = pending)
       /\ (pc \in UpdateLoops =>
             \A k \in DOMAIN entities :
                IsMine(entities[k]) /\ entities'[k] # entities[k] =>
                   /\ pc = "tank_mine" /\ k = idx
                   /\ entities[k].alive
                   /\ entities'[k] = [entities[k] EXCEPT !.alive = FALSE]
                   /\ \E j \in DOMAIN entities :
                         /\ IsTank(entities[j])
                         /\ entities[j].team # entities[k].team
                         /\ entities'[j].armor < entities[j].armor)
       /\ (pc \notin UpdateLoops /\ pc # "enter" =>
             \A k \in DOMAIN entities :
                IsMine(entities[k]) /\ entities[k].alive =>
                   \E n \in DOMAIN entities' : entities'[n] = entities[k])
        ]_vars

\* two frames have run and the mine that lay between the enemy tanks, laid
\* by their team, is still there, alive, with one of them in its reach
C16_Witness ==
    /\ pc = "idle" /\ frame >= 2
    /\ \E k \in DOMAIN entities, j \in DOMAIN entities :
          /\ IsMine(entities[k]) /\ entities[k].alive
          /\ entities[k].id = SetupCount
          /\ IsTank(entities[j]) /\ entities[j].alive
          /\ entities[j].team = entities[k].team
          /\ Within(entities[k], entities[j], TANK_SIZE + MINE_RADIUS)

\* C17: in every state every pillbox has 0 <= health <= 16, and a pillbox
\* whose health is 0 has team NEUTRAL and is not active.
C17_PillboxHealth ==
    \A k \in DOMAIN entities :
        IsPillbox(entities[k]) =>
            /\ 0 <= entities[k].health /\ entities[k].health <= 16
            /\ (entities[k].health = 0 =>
                  entities[k].team = 0 /\ ~entities[k].active)

\* take_damage has been called twice on a pillbox one hit from falling:
\* its health is 0 and not below, it is neutral and inactive
C17_Witness ==
    /\ pc = "take_damage" /\ frame = 2
    /\ entities[1].health = 0
    /\ entities[1].team = NEUTRAL
    /\ ~entities[1].active
    /\ entities[1].aggression \in {2, 8}

\* C18: Pillbox.capture(t), whatever the pillbox was before, fallen
\* (health 0, inactive, neutral) included, leaves it with team t, health 8
\* (half of PILLBOX_MAX_HEALTH), active and with aggression 0, everything
\* else of it and every other entity as before.
C18_Capture ==
    [][pc' = "capture" =>
         /\ entities'[1].team = idx'
         /\ entities'[1].health = 8
         /\ 2 * entities'[1].health = PILLBOX_MAX_HEALTH
         /\ entities'[1].active
         /\ entities'[1].aggression = 0
         /\ entities' = [entities EXCEPT ![1].team = idx', ![1].health = 8,
                                         ![1].active = TRUE,
                                         ![1].aggression = 0]
         /\ pending' = pending
        ]_vars

\* the first call has captured for TEAM_1 the pillbox that lay fallen with
\* six frames of cooldown left: health 8, active, aggression 0
C18_Witness ==
    /\ pc = "capture" /\ frame = 1 /\ idx = TEAM_1
    /\ entities[1].team = TEAM_1
    /\ entities[1].health = 8
    /\ entities[1].active
    /\ entities[1].aggression = 0
    /\ entities[1].fire_cooldown = 6

\* C19: a pillbox's aggression is within 0..8 in every state; a call of
\* take_damage leaves it at min(8, aggression + 1); Pillbox.update never
\* raises it and lowers it by 1 at most, never below 0.
C19_Aggression ==
    [][/\ entities[1].aggression \in 0 .. 8
       /\ entities'[1].aggression \in 0 .. 8
       /\ (pc' = "take_damage" =>
             entities'[1].aggression =
                (IF entities[1].aggression >= 8 THEN 8
                 ELSE entities[1].aggression + 1))
       /\ (pc' = "pillbox_update" =>
             /\ entities'[1].aggression <= entities[1].aggression
             /\ entities'[1].aggression >= entities[1].aggression - 1
             /\ entities'[1].aggression >= 0)
        ]_vars

\* two calls, both take_damage, on a pillbox that started at aggression 7
\* or 8: the aggression stands at 8
C19_Witness ==
    /\ pc = "take_damage" /\ frame = 2
    /\ entities[1].health = PILLBOX_MAX_HEALTH - 2
    /\ entities[1].aggression = 8

\* C20: a pillbox that is active and whose cooldown has run out picks,
\* among the tanks of the live collection of another team that are strictly
\* nearer than its range, one at the least distance, the earliest in the
\* collection among those equally near, and fires one shell of its own
\* team and id from its own position towards that tank; when there is no
\* such tank it fires no shell and its cooldown stays as the tick left it.
C20_TargetSelection ==
    [][pc' = "pillbox_update" =>
         LET p == entities[1]
             c == IF p.fire_cooldown > 0 THEN p.fire_cooldown - 1
                  ELSE p.fire_cooldown
             C == {j \in DOMAIN entities :
                     /\ IsTank(entities[j])
                     /\ entities[j].team # p.team
                     /\ Dist2(entities[j], p) < 150 * 150}
             N == {j \in C : \A k \in C :
                     Dist2(entities[j], p) <= Dist2(entities[k], p)}
         IN  IF p.active /\ c <= 0 /\ C # {}
             THEN LET b == CHOOSE j \in N : \A k \in N : j <= k
                      s == pending'[Len(pending')]
                  IN  /\ Len(pending') = Len(pending) + 1
                      /\ \A k \in DOMAIN pending : pending'[k] = pending[k]
                      /\ IsShell(s) /\ s.alive
                      /\ s.x = p.x /\ s.y = p.y
                      /\ s.team = p.team /\ s.owner_id = p.id
                      /\ s.angle = (IF entities[b].x < p.x THEN 180 ELSE 0)
                      /\ entities'[1].fire_cooldown > 0
             ELSE /\ pending' = pending
                  /\ entities'[1].fire_cooldown =
                       (IF p.active THEN c ELSE p.fire_cooldown)
        ]_vars

\* the pillbox has fired to its west, at the earlier of two tanks of
\* another team that stand equally far from it on either side
C20_Witness ==
    /\ pc = "pillbox_update"
    /\ Len(pending) = 1
    /\ pending[1].angle = 180
    /\ entities[2].x = PillboxSpawnX - 20
    /\ entities[3].x = PillboxSpawnX + 20
    /\ entities[2].team # pending[1].team
    /\ entities[3].team # pending[1].team


\* C21: a pillbox emits a shell only in an update in which it is active and
\* its cooldown is 0 after the decrement of that update; the shot sets the
\* cooldown to max(5, 30 - 3 * aggression); an update without a shot lowers
\* a positive cooldown of an active pillbox by exactly 1 and
\* take_damage and capture leave the cooldown alone and emit nothing, so a
\* second shot comes no sooner than that many updates after the first; the
\* cooldown is within 0..30 before and after every call.
C21_FireCooldown ==
    [][LET p == entities[1]
           q == entities'[1]
           fired == Len(pending') > Len(pending)
       IN  /\ p.fire_cooldown \in 0 .. 30
           /\ q.fire_cooldown \in 0 .. 30
           /\ fired =>
                /\ pc' = "pillbox_update"
                /\ p.active
                /\ (IF p.fire_cooldown > 0 THEN p.fire_cooldown - 1
                    ELSE p.fire_cooldown) = 0
                /\ q.fire_cooldown =
                     (IF 30 - 3 * q.aggression > 5
                      THEN 30 - 3 * q.aggression ELSE 5)
                /\ Len(pending') = Len(pending) + 1
           /\ (pc' = "pillbox_update" /\ ~fired) =>
                q.fire_cooldown =
                  (IF p.active /\ p.fire_cooldown > 0
                   THEN p.fire_cooldown - 1 ELSE p.fire_cooldown)
           /\ (pc' # "pillbox_update") => q.fire_cooldown = p.fire_cooldown
           /\ Len(pending') >= 2 => frame' >= 1 + 6
      ]_vars

\* the pillbox has just fired its second shell, six updates after the
\* first one, which it fired at full aggression
C21_Witness ==
    /\ pc = "pillbox_update"
    /\ Len(pending) = 2
    /\ frame = 7
    /\ entities[1].fire_cooldown = 6
    /\ entities[1].aggression = 8
    /\ entities[1].active


\* C22: in the Tank-Base pass a live tank nearer than tank.size + base.size
\* (12 + 16) to a NEUTRAL base gives the base its own team; a base owned by
\* another team than the tank's is left exactly as it was by the contact,
\* and a tank that touches no base of its own team is left as it was; and
\* in no step of the game does a base whose team is not NEUTRAL change
\* team.
C22_BaseCapture ==
    [][/\ pc = "tank_base" =>
            LET t == entities[idx]
                Touches(b) == /\ IsTank(t) /\ t.alive /\ IsBase(b)
                              /\ (t.x - b.x) * (t.x - b.x)
                                   + (t.y - b.y) * (t.y - b.y)
                                 < (12 + 16) * (12 + 16)
            IN  /\ \A j \in DOMAIN entities :
                     LET b == entities[j] IN
                     /\ (Touches(b) /\ b.team = NEUTRAL /\ t.team # NEUTRAL)
                          => /\ entities'[j].team = t.team
                             /\ entities'[j].kind = "Base"
                     /\ (Touches(b) /\ b.team # NEUTRAL /\ b.team # t.team)
                          => entities'[j] = b
                     /\ (IsBase(b) /\ ~Touches(b)) => entities'[j] = b
                /\ (\A j \in DOMAIN entities :
                       Touches(entities[j]) =>
                           entities[j].team # t.team)
                     => entities'[idx] = t
       /\ \A j \in DOMAIN entities, k \in DOMAIN entities' :
            (/\ entities[j].kind = "Base"
             /\ entities'[k].id = entities[j].id
             /\ entities[j].team # NEUTRAL)
              => entities'[k].team = entities[j].team
      ]_vars

\* the Tank-Base pass is over: the player's tank stands in contact with the
\* base next to it, which the other team owned and still owns, and the base
\* that nobody owned when the frame began is now of the team of the enemy
\* tank that touched it first
C22_Witness ==
    /\ pc = "cleanup"
    /\ frame = 0
    /\ entities[1].alive /\ entities[1].team = TEAM_1
    /\ entities[4].kind = "Base" /\ entities[4].team = TEAM_2
    /\ Within(entities[1], entities[4], TANK_SIZE + BASE_SIZE)
    /\ entities[1].armor = 5
    /\ entities[5].kind = "Base" /\ entities[5].team = TEAM_2
    /\ entities[5].health = 8


\* C23: one resupply_tank call, or one contact of the Tank-Base pass, of a
\* base with a tank of its own team raises the tank's armor, shells and
\* mines by min(1, base armor, 8 - tank armor), min(5, base shells,
\* 40 - tank shells) and min(2, base mines, 40 - tank mines), lowers the
\* base's stocks by the same amounts, leaves them non-negative and changes
\* nothing else; resupply_tank with a tank of another team returns False
\* and changes nothing.
C23_Resupply ==
    [][LET t == entities[1]
           b == entities[2]
           Least(x, y, z) ==
               IF x <= y /\ x <= z THEN x ELSE IF y <= z THEN y ELSE z
           ga == Least(1, b.armor, 8 - t.armor)
           gs == Least(5, b.shells, 40 - t.shells)
           gm == Least(2, b.mines, 40 - t.mines)
       IN  /\ (pc' \in {"resupply_tank", "contact"} /\ t.team = b.team) =>
                /\ entities'[1] = [t EXCEPT !.armor = t.armor + ga,
                                            !.shells = t.shells + gs,
                                            !.mines = t.mines + gm]
                /\ entities'[2] = [b EXCEPT !.armor = b.armor - ga,
                                            !.shells = b.shells - gs,
                                            !.mines = b.mines - gm]
                /\ entities'[2].armor >= 0
                /\ entities'[2].shells >= 0
                /\ entities'[2].mines >= 0
                /\ pc' = "resupply_tank" =>
                     (idx' = 1) = (ga > 0 \/ gs > 0 \/ gm > 0)
           /\ (pc' = "resupply_tank" /\ t.team # b.team) =>
                /\ idx' = 0
                /\ entities' = entities
      ]_vars

\* one contact has taken the tank from 5 armor to 6 and the base from 8 to
\* 7, has filled the 3 shells of room the tank had and the 1 mine
C23_Witness ==
    /\ pc = "contact"
    /\ frame = 1
    /\ entities[1].armor = 6 /\ entities[2].armor = 7
    /\ entities[1].shells = 40 /\ entities[2].shells = 17
    /\ entities[1].mines = 40 /\ entities[2].mines = 9
    /\ entities[1].team = entities[2].team
    /\ entities[2].health = 16


\* C24: Base.update lowers the regeneration timer by 1; in the update in
\* which it reaches 0 the timer is set back to 1200 and shells, mines and
\* armor stock rise by 1 each, capped at 40, 20 and 16; nothing else of the
\* base, no other entity, no tile and no pending entity changes in that
\* update; and before and after every step of the game each base has
\* 1 <= timer <= 1200, 0 <= shells <= 40, 0 <= mines <= 20 and
\* 0 <= armor <= 16.
C24_BaseRegeneration ==
    [][/\ (pc = "update" /\ entities[idx].kind = "Base") =>
            LET b == entities[idx]
                Cap(n, m) == IF n + 1 < m THEN n + 1 ELSE m
            IN  /\ entities'[idx] =
                     (IF b.regen_timer - 1 = 0
                      THEN [b EXCEPT !.regen_timer = 1200,
                                     !.shells = Cap(b.shells, 40),
                                     !.mines = Cap(b.mines, 20),
                                     !.armor = Cap(b.armor, 16)]
                      ELSE [b EXCEPT !.regen_timer = b.regen_timer - 1])
                /\ Len(entities') = Len(entities)
                /\ \A j \in DOMAIN entities :
                     j # idx => entities'[j] = entities[j]
                /\ tiles' = tiles
                /\ pending' = pending
       /\ \A ents \in {entities, entities'} : \A j \in DOMAIN ents :
            ents[j].kind = "Base" =>
                /\ 1 <= ents[j].regen_timer /\ ents[j].regen_timer <= 1200
                /\ 0 <= ents[j].shells /\ ents[j].shells <= 40
                /\ 0 <= ents[j].mines /\ ents[j].mines <= 20
                /\ 0 <= ents[j].armor /\ ents[j].armor <= 16
      ]_vars

\* both bases have just been updated with their timers at 1: the timers are
\* back at 1200, the full base is still at its caps and the other one has
\* one more of each supply than a base is constructed with
C24_Witness ==
    /\ pc = "update"
    /\ idx = 6
    /\ frame = 0
    /\ entities[4].kind = "Base" /\ entities[4].regen_timer = 1200
    /\ entities[4].shells = 40 /\ entities[4].mines = 20
    /\ entities[4].armor = 16
    /\ entities[5].kind = "Base" /\ entities[5].regen_timer = 1200
    /\ entities[5].shells = BASE_INIT_SHELLS + 1
    /\ entities[5].mines = BASE_INIT_MINES + 1
    /\ entities[5].armor = BASE_INIT_ARMOR + 1


\* C25: GameState.update spawns nothing of its own: the merge makes the
\* live collection the old one followed by the pending buffer, and every
\* later step of the frame leaves in the live collection only entities that
\* were in it before the step, of the kind they had; so the number of tanks
\* in the live collection does not rise in any step of an update, also when
\* no enemy tank is left.
C25_NoImplicitSpawn ==
    [][LET Tanks(ents) == {j \in DOMAIN ents : ents[j].kind = "Tank"}
       IN  /\ (pc = "enter" /\ ~(paused \/ game_over)) =>
                /\ Len(entities') = Len(entities) + Len(pending)
                /\ \A k \in DOMAIN entities' :
                     entities'[k] = (IF k <= Len(entities) THEN entities[k]
                                     ELSE pending[k - Len(entities)])
           /\ (pc \in {"update", "shell_tank", "shell_pillbox", "tank_mine",
                       "tank_base", "cleanup"}) =>
                \A k \in DOMAIN entities' : \E j \in DOMAIN entities :
                    /\ entities'[k].id = entities[j].id
                    /\ entities'[k].kind = entities[j].kind
           /\ (pc \in {"enter", "update", "shell_tank", "shell_pillbox",
                       "tank_mine", "tank_base", "cleanup"}) =>
                Cardinality(Tanks(entities')) <= Cardinality(Tanks(entities))
      ]_vars

\* two updates have run with no enemy tank in the game: the live collection
\* holds no enemy tank, and it holds a shell that came in from the pending
\* buffer
C25_Witness ==
    /\ pc = "idle"
    /\ frame = 2
    /\ \A j \in DOMAIN entities :
         ~(entities[j].kind = "Tank" /\ entities[j].team = TEAM_2)
    /\ \E j \in DOMAIN entities : entities[j].kind = "Shell"
    /\ \A j \in DOMAIN entities : entities[j].id < next_id


\* C26: move_forward and move_backward change nothing of the tank but its
\* position, which stays as it was or becomes the candidate (the position
\* plus the heading times speed 2 times the multiplier of the current cell,
\* for move_backward minus 0.6 of that); the position stays as it was when
\* the current cell has multiplier 0, when the candidate is outside
\* [12, pixel_width - 12] x [12, pixel_height - 12], or when the
\* candidate's cell is DEEP_WATER, WALL or DAMAGED_WALL; and a tank whose
\* centre is inside those bounds and on a passable cell before a move, a
\* frame or damage to the terrain is so afterwards.
C26_Movement ==
    [][LET t == entities[1]
           t2 == entities'[1]
           Blocked == {"DEEP_WATER", "WALL", "DAMAGED_WALL"}
           CellAt(tl, x, y) ==
               LET cx == (x \div 100) \div 16
                   cy == (y \div 100) \div 16
               IN  IF 0 <= cx /\ cx < MapW /\ 0 <= cy /\ cy < MapH
                   THEN tl[cy][cx] ELSE "WALL"
           Inside(x, y) ==
               /\ 12 * 100 <= x /\ x <= (MapW * 16 - 12) * 100
               /\ 12 * 100 <= y /\ y <= (MapH * 16 - 12) * 100
           mult == TERRAIN_DATA[CellAt(tiles, t.x, t.y)].speed_multiplier
           dir == IF t.angle = 0 THEN 1 ELSE -1
           cx == IF pc' = "move_forward" THEN t.x + dir * 2 * mult
                 ELSE t.x - dir * ((2 * mult * 6) \div 10)
           cy == t.y
       IN  /\ pc' \in {"move_forward", "move_backward"} =>
                /\ t2 = t \/ t2 = [t EXCEPT !.x = cx, !.y = cy]
                /\ (\/ mult = 0
                    \/ ~Inside(cx, cy)
                    \/ CellAt(tiles, cx, cy) \in Blocked) => t2 = t
                /\ tiles' = tiles
           /\ (Inside(t.x, t.y) /\ CellAt(tiles, t.x, t.y) \notin Blocked)
                => /\ Inside(t2.x, t2.y)
                   /\ CellAt(tiles', t2.x, t2.y) \notin Blocked
      ]_vars

\* the tank has driven a step of 1.6 pixels up to the wall east of it and
\* its next move_forward, onto the wall, has just been rejected
C26_Witness ==
    /\ pc = "move_forward"
    /\ idx = 0
    /\ entities[1].angle = 0
    /\ entities[1].x = PillboxX * 100 + 160
    /\ tiles[1][WallTileX] = "WALL"
    /\ tiles[1][WallTileX - 1] = "GRASS"


\* C27: for every coordinate outside 0 <= x < width, 0 <= y < height
\* get_tile returns WALL, and a set_tile or damage_tile call (also the one
\* a shell past the edge makes) leaves every cell as it was; and whatever
\* set_tile, damage_tile, generate_random and the writes of a frame do, the
\* grid keeps its MapH rows of MapW cells.
C27_MapBounds ==
    [][/\ \A tl \in {tiles, tiles'} :
            /\ DOMAIN tl = 0 .. MapH - 1
            /\ \A y \in 0 .. MapH - 1 : DOMAIN tl[y] = 0 .. MapW - 1
       /\ \A x \in -1 .. MapW, y \in -1 .. MapH :
            ~(0 <= x /\ x < MapW /\ 0 <= y /\ y < MapH) =>
                /\ get_tile(tiles, x, y) = "WALL"
                /\ get_tile(tiles', x, y) = "WALL"
       /\ (pc' \in {"set_tile", "damage_tile", "shell_update"} /\ idx' = 0)
            => tiles' = tiles
      ]_vars

\* a damage_tile call outside the grid has just left alone a map in which
\* set_tile had put deep water at a cell of the row
C27_Witness ==
    /\ pc = "damage_tile"
    /\ idx = 0
    /\ frame = 2
    /\ tiles[1][WallTileX] = "DEEP_WATER"
    /\ tiles[1][0] = "WALL"


\* C28: damage_tile at a cell of the grid turns WALL into DAMAGED_WALL,
\* DAMAGED_WALL into RUBBLE, FOREST into GRASS and SWAMP into CRATER and
\* leaves a cell of any other kind as it is; no other cell changes; and at
\* every cell a third damage_tile call after two changes nothing.
C28_DamageTable ==
    [][/\ (pc' = "damage_tile" /\ idx' > 0) =>
            LET tx == (idx' - 1) % MapW
                ty == (idx' - 1) \div MapW
                old == tiles[ty][tx]
                new == CASE old = "WALL"         -> "DAMAGED_WALL"
                         [] old = "DAMAGED_WALL" -> "RUBBLE"
                         [] old = "FOREST"       -> "GRASS"
                         [] old = "SWAMP"        -> "CRATER"
                         [] OTHER                -> old
            IN  /\ tiles'[ty][tx] = new
                /\ \A y \in 0 .. MapH - 1, x \in 0 .. MapW - 1 :
                     (x # tx \/ y # ty) => tiles'[y][x] = tiles[y][x]
                /\ old \in {"RUBBLE", "ROAD", "BOAT", "GRASS", "CRATER",
                            "RIVER", "DEEP_WATER"} => tiles' = tiles
       /\ (pc' = "damage_tile") =>
            \A y \in 0 .. MapH - 1, x \in 0 .. MapW - 1 :
                LET twice == damage_tile(damage_tile(tiles, x, y), x, y)
                IN  damage_tile(twice, x, y) = twice
      ]_vars

\* a boat moored at a cell of the row by set_tile has just been left as it
\* was by damage_tile, while the border cell of the row, damaged before,
\* is a damaged wall
C28_Witness ==
    /\ pc = "damage_tile"
    /\ idx = 1 + MapW + WallTileX
    /\ frame = 3
    /\ tiles[1][WallTileX] = "BOAT"
    /\ tiles[1][0] = "DAMAGED_WALL"


\* C29: in the terrain lookup table (TERRAIN_DATA of the engine, and
\* TERRAIN of the configuration module alike) no kind has a negative speed
\* multiplier; a kind has multiplier 0 exactly when it is not passable; the
\* kinds that block projectiles are exactly WALL and DAMAGED_WALL; and
\* DEEP_WATER is the one kind that is impassable with multiplier 0 and does
\* not block projectiles.  It holds for every kind, so for the kind of
\* every cell of the map in every state.
C29_TerrainTable ==
    \A table \in {TERRAIN_DATA, TERRAIN} :
        /\ DOMAIN table = TileType
        /\ \A t \in TileType :
             /\ ~(table[t].speed_multiplier < 0)
             /\ (table[t].speed_multiplier = 0) <=> ~table[t].passable
             /\ table[t].blocks_shots <=> t \in {"WALL", "DAMAGED_WALL"}
        /\ {t \in TileType : /\ ~table[t].passable
                             /\ table[t].speed_multiplier = 0
                             /\ ~table[t].blocks_shots} = {"DEEP_WATER"}
        /\ \A y \in 0 .. MapH - 1, x \in 0 .. MapW - 1 :
             LET info == table[tiles[y][x]] IN
             /\ info.speed_multiplier >= 0
             /\ (info.speed_multiplier = 0) <=> ~info.passable
             /\ info.blocks_shots => ~info.passable

\* the map holds a cell of deep water, impassable at multiplier 0 and open
\* to projectiles, next to border walls that block them
C29_Witness ==
    /\ pc = "set_tile"
    /\ tiles[1][WallTileX] = "DEEP_WATER"
    /\ ~TERRAIN_DATA[tiles[1][WallTileX]].passable
    /\ ~TERRAIN_DATA[tiles[1][WallTileX]].blocks_shots
    /\ TERRAIN_DATA[tiles[1][0]].blocks_shots
    /\ TERRAIN[tiles[1][WallTileX]] = TERRAIN_DATA[tiles[1][WallTileX]]


\* C30: after an update in which the player's tank exists and is alive the
\* camera is within 0 .. pixel_width - WINDOW_WIDTH on x and within
\* 0 .. pixel_height - WINDOW_HEIGHT on y, on a map at least as large as
\* the window; on the configured map of 64 x 48 tiles under the window of
\* 1024 x 768 the camera is (0, 0) in every state; and an update in which
\* the player is missing or not alive leaves the camera as it was.
C30_Camera ==
    [][LET w == Cardinality(DOMAIN tiles[0]) * 16
           h == Cardinality(DOMAIN tiles) * 16
           alive == \E j \in DOMAIN entities :
                        entities[j].id = player_id /\ entities[j].alive
       IN  /\ (pc' = "update_camera" /\ alive) =>
                /\ 0 <= camera_x' /\ camera_x' <= (w - 1024) * CamUnit
                /\ 0 <= camera_y' /\ camera_y' <= (h - 768) * CamUnit
           /\ (pc' = "update_camera" /\ ~alive) =>
                /\ camera_x' = camera_x
                /\ camera_y' = camera_y
           /\ (w = 64 * 16 /\ h = 48 * 16) =>
                /\ camera_x = 0 /\ camera_y = 0
                /\ camera_x' = 0 /\ camera_y' = 0
      ]_vars

\* on the larger map the camera has followed the player part of the way
\* into the far corner; the tank has then been destroyed and the update
\* just made has left the camera where it was
C30_Witness ==
    /\ pc = "update_camera"
    /\ frame = 3
    /\ entities # << >>
    /\ ~entities[1].alive
    /\ camera_x > 0 /\ camera_x < 256 * CamUnit
    /\ camera_y > 0 /\ camera_y < 192 * CamUnit


\* C31: restart, from any state between frames (paused or not, the player
\* alive, destroyed or purged, entities pending or not), leaves the pending
\* buffer empty, paused and game_over false, score 0 and the camera at
\* (0, 0); the live collection is the setup as _setup_game builds it, in
\* its order (the player's tank, the enemy tanks facing west, the bases,
\* the pillboxes), all alive with the resources of their constructors, the
\* player being its first entity; and no entity of the state before is in
\* it: every id is new.
C31_Restart ==
    [][(player_id' # player_id) =>
         /\ pending' = << >>
         /\ ~paused' /\ ~game_over'
         /\ score' = 0
         /\ camera_x' = 0 /\ camera_y' = 0
         /\ Len(entities') = 6
         /\ [k \in 1 .. 6 |-> entities'[k].kind]
              = <<"Tank", "Tank", "Tank", "Base", "Base", "Pillbox">>
         /\ [k \in 1 .. 6 |-> entities'[k].team]
              = <<TEAM_1, TEAM_2, TEAM_2, TEAM_1, NEUTRAL, NEUTRAL>>
         /\ entities'[1].id = player_id'
         /\ \A k \in 1 .. 6 :
              LET e == entities'[k] IN
              /\ e.alive
              /\ e.kind = "Tank" =>
                   /\ e.armor = 8 /\ e.shells = 40 /\ e.mines = 40
                   /\ e.fire_cooldown = 0
                   /\ e.angle = (IF e.team = TEAM_2 THEN 180 ELSE 0)
              /\ e.kind = "Base" =>
                   /\ e.health = 16 /\ e.shells = 20 /\ e.mines = 10
                   /\ e.armor = 8 /\ e.regen_timer = 1200
              /\ e.kind = "Pillbox" =>
                   /\ e.health = 16 /\ e.active /\ e.aggression = 0
                   /\ e.fire_cooldown = 0
              /\ \A j \in DOMAIN entities : entities[j].id # e.id
              /\ \A j \in DOMAIN pending : pending[j].id # e.id
              /\ \A j \in 1 .. 6 : j # k => entities'[j].id # e.id
      ]_vars

\* the game has been restarted after the inputs had constructed MaxSpawn
\* shells or mines and a frame had run: the setup is back with new ids
C31_Witness ==
    /\ pc = "idle"
    /\ player_id = SetupCount + MaxSpawn
    /\ next_id = player_id + SetupCount
    /\ frame >= 1
    /\ pending = << >>
    /\ Len(entities) = SetupCount
    /\ entities[1].id = player_id
    /\ entities[1].armor = TANK_MAX_ARMOR


\* C32: ids come from one counter that only grows: across every step of
\* the game, restart included, the counter never goes back, every entity
\* in the live collection or the pending buffer has an id below it, an
\* entity whose id was in neither before the step was constructed in the
\* step and has an id at or above the counter's value before the step
\* (above every id issued until then), and no two entities share an id.
C32_UniqueIds ==
    [][LET before == entities \o pending
           after == entities' \o pending'
       IN  /\ next_id' >= next_id
           /\ \A k \in DOMAIN after :
                /\ after[k].id < next_id'
                /\ (\A j \in DOMAIN before : before[j].id # after[k].id)
                     => after[k].id >= next_id
                /\ \A j \in DOMAIN after : j # k => after[j].id # after[k].id
      ]_vars

\* after a restart that followed MaxSpawn constructions, a shell of the
\* new game, the last entity constructed, is in the live collection
C32_Witness ==
    /\ player_id = SetupCount + MaxSpawn
    /\ next_id > player_id + SetupCount
    /\ \E j \in DOMAIN entities :
         /\ entities[j].kind = "Shell"
         /\ entities[j].id = next_id - 1


\* the simulation state a second copy of the game reaches from the current
\* state by the step of update() the first copy is at, given the random
\* value d that Pillbox.update draws (random.random() < 0.01)
SecondCopy(d) ==
    LET sim(tl, ents, pend, cx, cy, nid) ==
            [tiles |-> tl, entities |-> ents, pending |-> pend,
             camera_x |-> cx, camera_y |-> cy, next_id |-> nid]
        same == sim(tiles, entities, pending, camera_x, camera_y, next_id)
    IN  CASE pc = "enter" ->
               IF paused \/ game_over
               THEN same
               ELSE [same EXCEPT !.entities = MergePending(entities, pending),
                                 !.pending = << >>]
          [] pc = "update" ->
               LET e == entities[idx]
                   pend == EntityUpdatePending(e, d, entities, pending, next_id)
               IN  [same EXCEPT
                      !.entities = [entities EXCEPT
                                      ![idx] = EntityUpdate(e, d, entities, tiles)],
                      !.tiles = EntityUpdateTiles(e, tiles),
                      !.pending = pend,
                      !.next_id = next_id + Len(pend) - Len(pending)]
          [] pc = "shell_tank" ->
               [same EXCEPT !.entities = ShellTankAt(entities, idx)]
          [] pc = "shell_pillbox" ->
               [same EXCEPT !.entities = ShellPillboxAt(entities, idx)]
          [] pc = "tank_mine" ->
               [same EXCEPT !.entities = TankMineAt(entities, idx),
                            !.tiles = TankMineTilesAt(entities, idx, tiles)]
          [] pc = "tank_base" ->
               [same EXCEPT !.entities = TankBaseAt(entities, idx)]
          [] pc = "cleanup" ->
               LET pl == entities[PlayerIndex(entities)] IN
               [same EXCEPT
                  !.entities = remove_dead_entities(entities),
                  !.camera_x = IF PlayerAlive(entities)
                               THEN CameraAxis(camera_x, pl.x, WINDOW_WIDTH \div 2,
                                               pixel_width - WINDOW_WIDTH)
                               ELSE camera_x,
                  !.camera_y = IF PlayerAlive(entities)
                               THEN CameraAxis(camera_y, pl.y, WINDOW_HEIGHT \div 2,
                                               pixel_height - WINDOW_HEIGHT)
                               ELSE camera_y]
          [] OTHER -> same

C34_PausedFrameChangesNothing ==
    [][paused => UNCHANGED <<tiles, entities, pending, player_id, camera_x,
                             camera_y, game_over, score, next_id>>]_vars


\* C35: in every step of update() a terrain cell changes in one of two
\* ways only: from WALL to DAMAGED_WALL or from DAMAGED_WALL to RUBBLE in
\* the update of a shell that has moved onto that cell, or from any kind
\* to CRATER in the Tank vs Mine iteration of a mine lying on that cell
\* that detonates; every other cell, FOREST and SWAMP cells a shell flies
\* over included, keeps its kind.  Hence from the start of a frame to its
\* end no passable cell becomes impassable and no cell that lets
\* projectiles through becomes one that blocks them.
C35_TerrainChanges ==
    [][/\ \A y \in 0 .. MapH - 1, x \in 0 .. MapW - 1 :
            tiles'[y][x] # tiles[y][x] =>
              LET e == entities[idx] IN
              \/ /\ pc = "update"
                 /\ e.kind = "Shell"
                 /\ TileOf(entities'[idx].x) = x
                 /\ TileOf(entities'[idx].y) = y
                 /\ <<tiles[y][x], tiles'[y][x]>>
                      \in {<<"WALL", "DAMAGED_WALL">>,
                           <<"DAMAGED_WALL", "RUBBLE">>}
              \/ /\ pc = "tank_mine"
                 /\ e.kind = "Mine"
                 /\ TileOf(e.x) = x /\ TileOf(e.y) = y
                 /\ ~entities'[idx].alive
                 /\ tiles'[y][x] = "CRATER"
       /\ pc = "cleanup" =>
            \A y \in 0 .. MapH - 1, x \in 0 .. MapW - 1 :
               LET was == TERRAIN_DATA[frame_tiles[y][x]]
                   now == TERRAIN_DATA[tiles[y][x]]
               IN  /\ was.passable => now.passable
                   /\ ~was.blocks_shots => ~now.blocks_shots
      ]_vars

\* at the end of a frame a mine has left a crater and a shell has damaged
\* a wall of the row
C35_Witness ==
    /\ pc = "cleanup"
    /\ \E x \in 0 .. MapW - 1 :
         /\ tiles[TileOf(RowY)][x] = "CRATER"
         /\ frame_tiles[TileOf(RowY)][x] # "CRATER"
    /\ \E x \in 0 .. MapW - 1 :
         /\ tiles[TileOf(RowY)][x] \in {"DAMAGED_WALL", "RUBBLE"}
         /\ frame_tiles[TileOf(RowY)][x] # tiles[TileOf(RowY)][x]


\* C36: when an unpaused update() returns (the purge and the camera step
\* done), every shell in the live collection has lifetime >= 1, has
\* 0 <= x < pixel_width and 0 <= y < pixel_height, and is on a cell whose
\* kind does not block projectiles.
C36_LiveShells ==
    [][(pc = "cleanup") =>
         \A k \in DOMAIN entities' :
            LET s == entities'[k] IN
            s.kind = "Shell" =>
              /\ s.lifetime >= 1
              /\ 0 <= s.x /\ s.x < MapW * TILE_SIZE
              /\ 0 <= s.y /\ s.y < MapH * TILE_SIZE
              /\ tiles'[s.y \div TILE_SIZE][s.x \div TILE_SIZE]
                   \notin {"WALL", "DAMAGED_WALL"}
      ]_vars

\* an update() has returned with a shell in the live collection that it
\* moved onto the east border cell of the row, shot down to rubble before
C36_Witness ==
    /\ pc = "idle"
    /\ frame >= 1
    /\ \E k \in DOMAIN entities :
         /\ entities[k].kind = "Shell"
         /\ TileOf(entities[k].x) = MapW - 1
         /\ entities[k].lifetime = 1


\* C37: inside one Shell.update the lifetime is tested before the terrain:
\* when the update of a live shell with one update left moves it onto a
\* WALL or DAMAGED_WALL cell, the shell is destroyed with lifetime 0 and
\* that cell, like every other, keeps its kind.
C37_ExpiryBeforeImpact ==
    [][(/\ pc = "update"
        /\ entities[idx].kind = "Shell"
        /\ entities[idx].alive
        /\ entities[idx].lifetime = 1
        /\ get_tile(tiles,
                    (entities[idx].x + Cos(entities[idx].angle) * SHELL_SPEED)
                       \div TILE_SIZE,
                    (entities[idx].y + Sin(entities[idx].angle) * SHELL_SPEED)
                       \div TILE_SIZE) \in {"WALL", "DAMAGED_WALL"})
         => /\ ~entities'[idx].alive
            /\ entities'[idx].lifetime = 0
            /\ tiles' = tiles
      ]_vars

\* a shell's last update has taken it onto the damaged wall in the middle
\* of the row: it is destroyed there and the wall is still a damaged wall
C37_Witness ==
    /\ pc \in {"update", "shell_tank"}
    /\ \E k \in DOMAIN entities :
          /\ entities[k].kind = "Shell"
          /\ ~entities[k].alive
          /\ entities[k].lifetime = 0
          /\ TileOf(entities[k].x) = WallTileX
          /\ tiles[TileOf(RowY)][WallTileX] = "DAMAGED_WALL"
          /\ frame_tiles[TileOf(RowY)][WallTileX] = "DAMAGED_WALL"


\* C38: a pillbox that damage has neutralised (health 0, not active, team
\* NEUTRAL) stays as it is through every step of every update(): the same
\* entity with every field unchanged is in the live collection afterwards,
\* its own update adds nothing to the pending buffer, and while every
\* pillbox is in that state the Shell vs Pillbox loop changes no entity,
\* the shells within reach included.
C38_NeutralisedStays ==
    [][\A k \in DOMAIN entities :
          LET p == entities[k] IN
          (p.kind = "Pillbox" /\ p.health = 0 /\ ~p.active /\ p.team = NEUTRAL)
            => /\ \E j \in DOMAIN entities' : entities'[j] = p
               /\ (pc = "update" /\ idx = k) => pending' = pending
               /\ (/\ pc = "shell_pillbox"
                   /\ \A j \in DOMAIN entities :
                        entities[j].kind = "Pillbox" => ~entities[j].active)
                    => entities' = entities
      ]_vars

\* the pillbox has fallen to a shell in this run (its aggression one above
\* where it started) and, an update later, the Shell vs Pillbox loop has
\* passed over a live shell of a team within its reach
C38_Witness ==
    /\ pc = "tank_mine"
    /\ frame >= 1
    /\ \E k \in DOMAIN entities, j \in DOMAIN entities :
         /\ entities[k].kind = "Pillbox"
         /\ entities[k].health = 0 /\ ~entities[k].active
         /\ entities[k].team = NEUTRAL
         /\ entities[k].aggression = 2
         /\ entities[j].kind = "Shell" /\ entities[j].alive
         /\ entities[j].team # NEUTRAL
         /\ (entities[j].x - entities[k].x) * (entities[j].x - entities[k].x)
              < (PILLBOX_SIZE + SHELL_RADIUS) * (PILLBOX_SIZE + SHELL_RADIUS)


\* C39: a tank's fire_cooldown is always within 0 .. fire_rate (10); only
\* Tank.update lowers it, by exactly 1 and never below 0; a fire() that
\* succeeds finds it at 0 and sets it to fire_rate, so that between two
\* successful fire() calls of the tank at least fire_rate Tank.update
\* calls are made; and the pending buffer never holds more than one shell
\* of the tank, however often fire() is called before the next update().
C39_FireRate ==
    [][LET t == entities[1]
           u == entities'[1]
       IN  /\ t.fire_cooldown \in 0 .. 10
           /\ u.fire_cooldown \in 0 .. 10
           /\ u.fire_cooldown < t.fire_cooldown
                => pc' = "update" /\ u.fire_cooldown = t.fire_cooldown - 1
           /\ (pc' = "update") =>
                u.fire_cooldown = (IF t.fire_cooldown = 0 THEN 0
                                   ELSE t.fire_cooldown - 1)
           /\ u.shells < t.shells =>
                /\ pc' = "fire"
                /\ t.fire_cooldown = 0 /\ u.fire_cooldown = 10
                /\ next_id > 1 => idx >= 10
           /\ Len(pending') <= 1
      ]_vars

\* the tank has fired a second time, ten updates after its first shot, the
\* fire key having been tried in between
C39_Witness ==
    /\ pc = "fire"
    /\ next_id = 3
    /\ idx = 0
    /\ frame > TANK_FIRE_RATE + 2
    /\ entities[1].fire_cooldown = TANK_FIRE_RATE
    /\ Len(pending) = 1


\* C40: game_over is false in every reachable state, whatever keys are
\* pressed and whatever update() does, restart included; so once the
\* player's tank is destroyed an unpaused update() still merges the pending
\* buffer and runs its loops, and a live shell updated in such a frame
\* still moves on.
C40_NeverGameOver ==
    [][/\ ~game_over /\ ~game_over'
       /\ (pc = "enter" /\ ~paused
           /\ \A j \in DOMAIN entities :
                entities[j].id = player_id => ~entities[j].alive)
            => /\ pc' \in {"update", "cleanup"}
               /\ entities' = entities \o pending
               /\ pending' = << >>
       /\ (pc = "update"
           /\ entities[idx].kind = "Shell" /\ entities[idx].alive
           /\ \A j \in DOMAIN entities :
                entities[j].id = player_id => ~entities[j].alive)
            => /\ entities'[idx].lifetime = entities[idx].lifetime - 1
               /\ entities'[idx].x # entities[idx].x
      ]_vars

\* the player's tank was destroyed and purged in an earlier frame, and a
\* later update() has gone through its entity loop with tanks left to update
C40_Witness ==
    /\ pc = "shell_tank"
    /\ frame >= 1
    /\ ~game_over
    /\ \A j \in DOMAIN entities : entities[j].id # player_id
    /\ \E j \in DOMAIN entities : entities[j].kind = "Tank" /\ entities[j].alive

=============================================================================
